---------------------------- MODULE Spec2Model ----------------------------
(***************************************************************************)
(* Model of the question-extraction core of yxy3635/online_test:           *)
(*   src/lib/aiParser.js    parseWithAI, splitTextIntoChunks,              *)
(*                          refineQuestionsWithAI                          *)
(*   src/server.js          POST /api/upload/ai (the caller of parseWithAI)*)
(*   src/lib/wordParser.js  parseWordToQuestions                           *)
(*   src/server-lan.js      POST /api/exam/rate                            *)
(* Every caller passes an onProgress callback, so the model has one.       *)
(*                                                                         *)
(* The specifications share the variables:                                 *)
(*   Spec        one invocation of parseWithAI                             *)
(*   SpecTwo     two invocations of parseWithAI, interleaved               *)
(*   SpecChunk   splitTextIntoChunks on documents of lines of many sizes   *)
(*   SpecRepair  one call of refineQuestionsWithAI, on generated content   *)
(*   SpecCall    that call with the events of its socket, under fairness   *)
(*   SpecWord    one run of the line loop of parseWordToQuestions          *)
(*   SpecPaths   either parseWordToQuestions or parseWithAI                *)
(*   SpecRate    concurrent requests to POST /api/exam/rate                *)
(* In each the variables of the parts that do not run keep their idle      *)
(* values.                                                                 *)
(*                                                                         *)
(* Strings of the AI path are run-length encoded: a string is a sequence   *)
(* of runs [c |-> character, n |-> repetitions], no two adjacent runs with *)
(* the same character.  This keeps the real chunk size (1500) checkable.   *)
(* Characters are named in ASCII:                                          *)
(*   "x" an ordinary letter   " " a blank   "NL" the newline \n            *)
(*   "1" a digit   "." the dot   "(" ")" parentheses                       *)
(*   "sqrt" the mark U+221A   "times" the mark U+00D7                      *)
(* Strings of the heuristic path are plain sequences of characters.        *)
(***************************************************************************)
EXTENDS Integers, Sequences, FiniteSets, TLC

VARIABLES
    \* parseWithAI
    pc,                 \* position of the invocation (see the actions)
    isString,           \* typeof fullText === 'string'
    fullText,           \* parseWithAI's argument
    chunks,             \* const chunks = splitTextIntoChunks(fullText, 1500)
    i,                  \* the loop index of parseWithAI (0-based, as in the code)
    allFinalQuestions,  \* the list parseWithAI builds and returns
    inflight,           \* refinement requests issued and not yet settled
    log,                \* observable effects in order: progress callbacks,
                        \* requests, settlements, console output, timers
    result,             \* how the invocation ended: none / returned / threw
    peer,               \* a second invocation of parseWithAI: its variables
    \* one call of refineQuestionsWithAI
    response,           \* what the endpoint does with the request
    promise,            \* the promise the call returned
    idleMs,             \* how long the socket of the request has been idle
    \* parseWordToQuestions
    linesRead,          \* the lines read so far: lines[0 .. i-1] of the code
    questions,          \* const questions = []
    currentQuestion,    \* let currentQuestion = null
    lastLineType,       \* let lastLineType = 'UNKNOWN'
    lastLineHadJudgementMark,
    trace,              \* for each line read: its class and what it added
    drafts,             \* the argument of each pushCurrentQuestion that pushed
    returned,           \* the loop is over and `questions` was returned
    \* POST /api/exam/rate
    examRow,            \* the committed row of the exam in the table exams
    rowLock,            \* the request whose transaction holds the row's lock
    rateReq             \* each request: its position and its locals

aiVars == <<pc, isString, fullText, chunks, i, allFinalQuestions, inflight, log, result>>
repairVars == <<response, promise, idleMs>>
wordVars == <<linesRead, questions, currentQuestion, lastLineType,
              lastLineHadJudgementMark, trace, drafts, returned>>
rateVars == <<examRow, rowLock, rateReq>>
vars == <<aiVars, repairVars, wordVars, peer, rateVars>>

-----------------------------------------------------------------------------
(* Bounds of the model *)

MaxLines == 3

-----------------------------------------------------------------------------
(* Run-length encoded strings *)

Run(ch, k) == [c |-> ch, n |-> k]

\* s + t
Cat(s, t) ==
    IF s = <<>> THEN t
    ELSE IF t = <<>> THEN s
    ELSE IF s[Len(s)].c = t[1].c
         THEN SubSeq(s, 1, Len(s) - 1) \o <<Run(t[1].c, s[Len(s)].n + t[1].n)>> \o Tail(t)
         ELSE s \o t

RECURSIVE StrLen(_)
\* s.length
StrLen(s) == IF s = <<>> THEN 0 ELSE s[1].n + StrLen(Tail(s))

RECURSIVE Substring0(_, _)
\* s.substring(0, k)
Substring0(s, k) ==
    IF s = <<>> \/ k <= 0 THEN <<>>
    ELSE IF s[1].n >= k THEN <<Run(s[1].c, k)>>
    ELSE <<s[1]>> \o Substring0(Tail(s), k - s[1].n)

\* \s of a JavaScript regular expression, and what trim() strips
IsSpace(ch) == ch \in {" ", "NL"}

RECURSIVE TrimStart(_)
TrimStart(s) == IF s # <<>> /\ IsSpace(s[1].c) THEN TrimStart(Tail(s)) ELSE s

RECURSIVE TrimEnd(_)
TrimEnd(s) ==
    IF s # <<>> /\ IsSpace(s[Len(s)].c) THEN TrimEnd(SubSeq(s, 1, Len(s) - 1)) ELSE s

\* s.trim()
Trim(s) == TrimEnd(TrimStart(s))

RECURSIVE SplitFrom(_, _, _)
SplitFrom(s, cur, acc) ==
    IF s = <<>> THEN Append(acc, cur)
    ELSE IF s[1].c = "NL"
         THEN SplitFrom(Tail(s), <<>>,
                        Append(acc, cur) \o [k \in 1..(s[1].n - 1) |-> <<>>])
         ELSE SplitFrom(Tail(s), Append(cur, s[1]), acc)

\* text.split('\n')
SplitLines(text) == SplitFrom(text, <<>>, <<>>)

RECURSIVE JoinLines(_)
\* lines.join('\n')
JoinLines(ls) ==
    IF ls = <<>> THEN <<>>
    ELSE IF Len(ls) = 1 THEN ls[1]
    ELSE Cat(Cat(ls[1], <<Run("NL", 1)>>), JoinLines(Tail(ls)))

-----------------------------------------------------------------------------
(* splitTextIntoChunks *)

TargetSize == 1500

IsDigit(ch) == ch \in {"1"}

\* newQuestionRegex = /^(\d+)[.、\)）]/ applied to line.trim()
NewQuestionRegexTest(line) ==
    LET t == Trim(line)
    IN  Len(t) >= 2 /\ IsDigit(t[1].c) /\ t[2].c \in {".", ")"}

\* OverLimit with the test left out: a buffer is closed at numbered lines only
OverLimitNever(prospectiveChunk, targetSize) == FALSE

\* prospectiveChunk.length > targetSize * 1.5
OverLimit(prospectiveChunk, targetSize) ==
    2 * StrLen(prospectiveChunk) > 3 * targetSize

\* PushIfNotBlank without the test of the buffer
PushAlways(out, currentChunk) == Append(out, currentChunk)

\* if (currentChunk.trim().length > 0) chunks.push(currentChunk)
PushIfNotBlank(out, currentChunk) ==
    IF StrLen(Trim(currentChunk)) > 0 THEN Append(out, currentChunk) ELSE out

RECURSIVE SplitLoop(_, _, _, _, _)
\* the for loop of splitTextIntoChunks, from line k on
SplitLoop(lines, k, currentChunk, out, targetSize) ==
    IF k > Len(lines)
    THEN PushIfNotBlank(out, currentChunk)
    ELSE LET line == lines[k]
             prospectiveChunk ==
                 Cat(Cat(currentChunk,
                         IF currentChunk # <<>> THEN <<Run("NL", 1)>> ELSE <<>>), line)
         IN  IF StrLen(prospectiveChunk) < targetSize
             THEN SplitLoop(lines, k + 1, prospectiveChunk, out, targetSize)
             ELSE IF NewQuestionRegexTest(line)
                     \/ OverLimit(prospectiveChunk, targetSize)
                  THEN SplitLoop(lines, k + 1, line,
                                 PushIfNotBlank(out, currentChunk), targetSize)
                  ELSE SplitLoop(lines, k + 1, prospectiveChunk, out, targetSize)

splitTextIntoChunks(text, targetSize) ==
    SplitLoop(SplitLines(text), 1, <<>>, <<>>, targetSize)

-----------------------------------------------------------------------------
(* Documents the model feeds in *)

\* the lines documents are made of: empty, blank, a numbered question line
\* and an unnumbered line, each of 800 characters when not empty
DocLines ==
    { <<>>,
      <<Run(" ", 800)>>,
      <<Run("1", 1), Run(".", 1), Run("x", 798)>>,
      <<Run("x", 800)>> }

RECURSIVE SeqsUpTo(_, _)
\* the sequences over S of length 0..k
SeqsUpTo(S, k) ==
    IF k = 0 THEN {<<>>}
    ELSE LET shorter == SeqsUpTo(S, k - 1)
         IN  shorter \cup {Append(q, e) : q \in {r \in shorter : Len(r) = k - 1}, e \in S}

Texts == {JoinLines(ls) : ls \in SeqsUpTo(DocLines, MaxLines) \ {<<>>}}


-----------------------------------------------------------------------------
(* Question records and the refinement endpoint *)

\* the type vocabulary: 判断题 / 单选题 / 多选题 / 简答题
TypeJudgment == "judgment"
TypeSingle == "single"
TypeMulti == "multi"
TypeShort == "short"

\* a JSON object of the endpoint's array, and a JSON null in its place
Question(title, type, answer, explanation) ==
    [kind |-> "object", title |-> title, type |-> type, options |-> <<>>,
     answer |-> answer, explanation |-> explanation]

JsonNull ==
    [kind |-> "null", title |-> <<>>, type |-> "", options |-> <<>>,
     answer |-> <<>>, explanation |-> <<>>]

JudgeOpen == {"("}
JudgeClose == {")"}
JudgeSymbols == {"sqrt", "times"}

\* title.replace(/[\(（]\s*[√×✓✗TFtf对错是否YyNn]\s*[\)）]\s*$/, '')
JudgeRegexReplace(title) ==
    LET a == TrimEnd(title)
        b == IF a = <<>> THEN <<>> ELSE TrimEnd(SubSeq(a, 1, Len(a) - 1))
        c == IF b = <<>> THEN <<>> ELSE TrimEnd(SubSeq(b, 1, Len(b) - 1))
        matches ==
            /\ a # <<>> /\ a[Len(a)].c \in JudgeClose /\ a[Len(a)].n = 1
            /\ b # <<>> /\ b[Len(b)].c \in JudgeSymbols /\ b[Len(b)].n = 1
            /\ c # <<>> /\ c[Len(c)].c \in JudgeOpen
    IN  IF ~matches THEN title
        ELSE IF c[Len(c)].n = 1 THEN SubSeq(c, 1, Len(c) - 1)
        ELSE SubSeq(c, 1, Len(c) - 1) \o <<Run(c[Len(c)].c, c[Len(c)].n - 1)>>

\* StripJudgeMark without the test of q.type
StripJudgeMarkAnyType(q) ==
    IF q.title # <<>>
    THEN [q EXCEPT !.title = Trim(JudgeRegexReplace(q.title))]
    ELSE q

\* the body of refinedBatch.forEach(q => ...) for one element that is an object
StripJudgeMark(q) ==
    IF q.type = TypeJudgment /\ q.title # <<>>
    THEN [q EXCEPT !.title = Trim(JudgeRegexReplace(q.title))]
    ELSE q

\* "【解析失败片段】" and "AI 解析失败，请手动检查原始内容：\n" and "系统错误"
FailTitlePrefix == <<Run("x", 8)>>
FailAnswerPrefix == <<Run("x", 2), Run(" ", 1), Run("x", 15), Run("NL", 1)>>
FailExplanation == <<Run("x", 4)>>

\* the object pushed by the catch block of parseWithAI
Placeholder(chunkText) ==
    Question(Cat(Cat(FailTitlePrefix, Substring0(chunkText, 50)), <<Run(".", 3)>>),
             TypeShort,
             Cat(FailAnswerPrefix, chunkText),
             FailExplanation)

\* titles the modelled endpoint puts in its arrays: "x(√)", "(×) " and
\* "x(√)(×)"
JudgeTitle == <<Run("x", 1), Run("(", 1), Run("sqrt", 1), Run(")", 1)>>
BareMark == <<Run("(", 1), Run("times", 1), Run(")", 1), Run(" ", 1)>>
DoubleMark == JudgeTitle \o <<Run("(", 1), Run("times", 1), Run(")", 1)>>

\* ---- the content of a response --------------------------------------------
\* The content string choices[0].message.content is a sequence of tokens:
\*   "["  "]"  ","     the array syntax
\*   "null"            the JSON literal null
\*   "fence"           a markdown fence, ```json or ```
\*   "prose"           text that is not JSON and holds no bracket or brace
\*   "Qs" "Qj" "Qb" "Qd"   the text of one complete JSON object {...}
\*   "Qj_bare"         the text of Qj with a key left unquoted:  {title: ...}
\*   "Qj_fw"           the text of Qj with full-width quotation marks
\*   "Qj_cut"          the text of Qj cut off before its closing brace
\* The last character of an object text is its only '}'.

ObjectTokens == {"Qs", "Qj", "Qb", "Qd"}

\* the objects the texts stand for; their titles are "x(√)", "(×) " and,
\* for Qd, "x(√)(×)"
ElementOf(tok) ==
    IF tok = "Qs" THEN Question(JudgeTitle, TypeSingle, <<Run("x", 1)>>, <<>>)
    ELSE IF tok = "Qj" THEN Question(JudgeTitle, TypeJudgment, <<Run("x", 2)>>, <<>>)
    ELSE IF tok = "Qb" THEN Question(BareMark, TypeJudgment, <<Run("x", 2)>>, <<>>)
    ELSE Question(DoubleMark, TypeJudgment, <<Run("x", 2)>>, <<>>)

\* an array that is itself an element of the parsed array: none of the
\* fields the orchestrator reads is defined on it
JsonArray ==
    [kind |-> "array", title |-> <<>>, type |-> "", options |-> <<>>,
     answer |-> <<>>, explanation |-> <<>>]

\* JSON.parse throwing a SyntaxError
ParseFail ==
    [ok |-> FALSE, next |-> 0, isArray |-> FALSE, value |-> JsonNull, items |-> <<>>]

RECURSIVE ParseValue(_, _)
RECURSIVE ParseElements(_, _, _)
\* JSON.parse reading one value from position p: whether it parsed, the
\* position after it, the value read (items: its elements, for an array)
ParseValue(c, p) ==
    IF p > Len(c) THEN ParseFail
    ELSE IF c[p] \in ObjectTokens
    THEN [ok |-> TRUE, next |-> p + 1, isArray |-> FALSE,
          value |-> ElementOf(c[p]), items |-> <<>>]
    ELSE IF c[p] = "null"
    THEN [ok |-> TRUE, next |-> p + 1, isArray |-> FALSE,
          value |-> JsonNull, items |-> <<>>]
    ELSE IF c[p] = "[" THEN ParseElements(c, p + 1, <<>>)
    ELSE ParseFail

\* JSON.parse after the "[" of an array, acc holding the elements read
ParseElements(c, p, acc) ==
    IF p > Len(c) THEN ParseFail
    ELSE IF acc = <<>> /\ c[p] = "]"
    THEN [ok |-> TRUE, next |-> p + 1, isArray |-> TRUE,
          value |-> JsonArray, items |-> <<>>]
    ELSE LET r == ParseValue(c, p)
         IN  IF ~r.ok \/ r.next > Len(c) THEN ParseFail
             ELSE IF c[r.next] = ","
             THEN ParseElements(c, r.next + 1, Append(acc, r.value))
             ELSE IF c[r.next] = "]"
             THEN [ok |-> TRUE, next |-> r.next + 1, isArray |-> TRUE,
                   value |-> JsonArray, items |-> Append(acc, r.value)]
             ELSE ParseFail

\* JSON.parse(c): the whole string is one value
JsonParse(c) ==
    LET r == ParseValue(c, 1)
    IN  IF r.ok /\ r.next = Len(c) + 1 THEN r ELSE ParseFail

\* content.replace(/```json/g, '').replace(/```/g, '').trim()
StripFences(c) == SelectSeq(c, LAMBDA t : t # "fence")

\* content.replace(/[“”]/g, '"') and then
\* .replace(/([{,]\s*)([a-zA-Z0-9_]+)(\s*:)/g, '$1"$2"$3')
FixQuotesAndKeys(c) ==
    [k \in DOMAIN c |-> IF c[k] \in {"Qj_bare", "Qj_fw"} THEN "Qj" ELSE c[k]]

\* fixedContent.trim().startsWith('[') && !fixedContent.trim().endsWith(']')
Unterminated(c) == c # <<>> /\ c[1] = "[" /\ c[Len(c)] # "]"

\* the token that holds fixedContent.lastIndexOf('}'), 0 when there is none
LastBrace(c) ==
    LET braces == {k \in DOMAIN c : c[k] \in ObjectTokens \cup {"Qj_bare", "Qj_fw"}}
    IN  IF braces = {} THEN 0 ELSE CHOOSE k \in braces : \A m \in braces : m <= k

\* fixedContent.substring(0, lastBrace + 1) + ']'
Truncated(c) == Append(SubSeq(c, 1, LastBrace(c)), "]")

\* the nested try blocks of refineQuestionsWithAI: the value of `questions`
\* when they end, or the SyntaxError they rethrow
RepairCascade(content) ==
    LET cleaned == StripFences(content)
        fixedContent == FixQuotesAndKeys(cleaned)
        closed == Append(fixedContent, "]")
    IN  IF JsonParse(cleaned).ok THEN JsonParse(cleaned)
        ELSE IF JsonParse(fixedContent).ok THEN JsonParse(fixedContent)
        ELSE IF ~Unterminated(fixedContent) THEN ParseFail
        ELSE IF JsonParse(closed).ok THEN JsonParse(closed)
        ELSE IF LastBrace(closed) > 0 THEN JsonParse(Truncated(closed))
        ELSE ParseFail

\* the contents the modelled endpoint answers with: the empty string, prose,
\* a lone object, and arrays: empty; two questions, fenced and with a bare
\* key; a question and a null, unterminated; a question whose title is a
\* bare judgment mark followed by a question that was cut off; a question
\* whose title ends with two judgment marks
AIContents ==
    { <<>>,
      <<"prose">>,
      <<"Qj">>,
      <<"[", "]">>,
      <<"fence", "[", "Qs", ",", "Qj_bare", "]", "fence">>,
      <<"[", "Qj", ",", "null">>,
      <<"[", "Qb", ",", "Qj_cut">>,
      <<"[", "Qd", "]">> }

\* what the endpoint can do with one request: the request fails
\* (req.on('error')), times out, answers with a status other than 200 or
\* with an error body, or answers with a content string
Responses ==
    { [kind |-> k, content |-> <<>>] :
        k \in {"networkError", "timeout", "status", "apiError"} }
    \cup { [kind |-> "content", content |-> c] : c \in AIContents }

\* the promise of refineQuestionsWithAI: resolved with the array, or rejected
refineQuestionsWithAI(resp) ==
    LET parsed == RepairCascade(resp.content)
    IN  IF resp.kind = "content" /\ resp.content # <<>>
           /\ parsed.ok /\ parsed.isArray
        THEN [ok |-> TRUE, value |-> parsed.items]
        ELSE [ok |-> FALSE, value |-> <<>>]

-----------------------------------------------------------------------------
(* One call of refineQuestionsWithAI, taken on its own *)

MaxContent == 4

\* the tokens of the generated content strings
RepairTokens == {"[", "]", ",", "Qj", "Qj_bare", "Qj_fw", "Qj_cut", "fence"}

\* every failure of the request, and every content string of at most
\* MaxContent tokens
RepairResponses ==
    { [kind |-> k, content |-> <<>>] :
        k \in {"networkError", "timeout", "status", "apiError"} }
    \cup { [kind |-> "content", content |-> c] : c \in SeqsUpTo(RepairTokens, MaxContent) }

\* new Promise((resolve, reject) => ...) before resolve or reject is called
PendingPromise == [settled |-> FALSE, ok |-> FALSE, value |-> <<>>]

MaxRaters == 2

\* the requests to POST /api/exam/rate
Raters == 1..MaxRaters

\* the row of an exam nobody has rated: rate DECIMAL(3,1) DEFAULT 5.0, kept
\* in tenths, and ratenums INT DEFAULT 0
UnratedRow == [rate |-> 50, ratenums |-> 0]

\* a request that has not been sent
NoRequest ==
    [at |-> "idle", exam_id |-> 0, ratingNum |-> 0, oldRate |-> 0, oldNums |-> 0,
     status |-> 0]

\* nobody rates
RateIdle ==
    /\ examRow = UnratedRow
    /\ rowLock = 0
    /\ rateReq = [r \in Raters |-> NoRequest]

\* no call of refineQuestionsWithAI is being followed
RepairIdle ==
    /\ response = [kind |-> "networkError", content |-> <<>>]
    /\ promise = PendingPromise
    /\ idleMs = 0

\* the variables of an invocation of parseWithAI that is not made
NoInvocation ==
    [pc |-> "idle", isString |-> TRUE, fullText |-> <<>>, chunks |-> <<>>,
     i |-> 0, allFinalQuestions |-> <<>>, inflight |-> 0, log |-> <<>>,
     result |-> "none"]

\* parseWithAI is not called
AIIdle ==
    /\ peer = NoInvocation
    /\ pc = "idle"
    /\ isString = TRUE
    /\ fullText = <<>>
    /\ chunks = <<>>
    /\ i = 0
    /\ allFinalQuestions = <<>>
    /\ inflight = 0
    /\ log = <<>>
    /\ result = "none"

\* the response (or the failure of the request) arrives: resolve or reject
PromiseSettles ==
    /\ ~promise.settled
    /\ LET r == refineQuestionsWithAI(response)
       IN  promise' = [settled |-> TRUE, ok |-> r.ok, value |-> r.value]
    /\ UNCHANGED <<response, idleMs, aiVars, wordVars, peer, rateVars>>

-----------------------------------------------------------------------------
(* parseWordToQuestions: characters and strings *)

\* A string of the heuristic path is a sequence of characters, each named
\* in ASCII.  Latin letters, digits and ASCII punctuation name themselves;
\* " " is any white space (\s).  The other characters:
\*   "dun" 、   "fw(" （   "fw)" ）   "fw:" ：
\*   "sqrt" √   "times" ×   "check" ✓   "cross" ✗
\*   "dui" 对   "cuo" 错   "shi" 是   "fou" 否   "zheng" 正   "que" 确
\*   "wu" 误    "da" 答    "an" 案
\*   "di" 第    "zhang" 章   "jie" 节   "num1" .. "num10" 一 .. 十
\*   "pan" 判   "duan" 断   "ti" 题   "fei" 非   "duo" 多   "xuan" 选
\*   "xiang" 项   "ze" 择   "dan" 单   "jian" 简   "wen" 问   "tian" 填
\*   "kong" 空
\*   "bullet" any of the glyphs •·*◦▪▫■□●○◆◇★☆

Whitespace == {" "}
DigitChars == {"0", "1", "2", "3", "4", "5", "6", "7", "8", "9"}
UpperCase ==
    <<"A", "B", "C", "D", "E", "F", "G", "H", "I", "J", "K", "L", "M",
      "N", "O", "P", "Q", "R", "S", "T", "U", "V", "W", "X", "Y", "Z">>
LowerCase ==
    <<"a", "b", "c", "d", "e", "f", "g", "h", "i", "j", "k", "l", "m",
      "n", "o", "p", "q", "r", "s", "t", "u", "v", "w", "x", "y", "z">>

UpperLetters == {UpperCase[k] : k \in 1..26}
LowerLetters == {LowerCase[k] : k \in 1..26}

\* one character of s.toUpperCase() and of s.toLowerCase()
UpperOf(ch) ==
    IF ch \in LowerLetters
    THEN UpperCase[CHOOSE k \in 1..26 : LowerCase[k] = ch]
    ELSE ch
LowerOf(ch) ==
    IF ch \in UpperLetters
    THEN LowerCase[CHOOSE k \in 1..26 : UpperCase[k] = ch]
    ELSE ch

\* s.toUpperCase(); ToLowerCase is how a regex with the i flag compares
ToUpperCase(s) == [k \in DOMAIN s |-> UpperOf(s[k])]
ToLowerCase(s) == [k \in DOMAIN s |-> LowerOf(s[k])]

RECURSIVE SkipChars(_, _, _)
\* the first position from p on whose character is not in set (Len(s) + 1
\* when there is none): how far a greedy [set]* reaches
SkipChars(s, p, set) ==
    IF p > Len(s) \/ s[p] \notin set THEN p ELSE SkipChars(s, p + 1, set)

RECURSIVE SkipBack(_, _, _)
\* the last position up to p whose character is not in set (0 when none)
SkipBack(s, p, set) ==
    IF p < 1 \/ s[p] \notin set THEN p ELSE SkipBack(s, p - 1, set)

\* s.substring(p - 1): the string from position p (1-based) on
From(s, p) == SubSeq(s, p, Len(s))

\* s.trim()
TrimString(s) == SubSeq(s, SkipChars(s, 1, Whitespace), SkipBack(s, Len(s), Whitespace))

\* s.startsWith(w), and the same ignoring case
StartsWith(s, w) == Len(s) >= Len(w) /\ SubSeq(s, 1, Len(w)) = w
StartsWithIgnoreCase(s, w) == StartsWith(ToLowerCase(s), ToLowerCase(w))

\* the first position at which sub occurs in s, 0 when it does not
IndexOf(s, sub) ==
    LET at == {k \in 1..(Len(s) - Len(sub) + 1) : SubSeq(s, k, k + Len(sub) - 1) = sub}
    IN  IF at = {} THEN 0 ELSE CHOOSE k \in at : \A m \in at : k <= m

\* s.replace(sub, ''), sub a string: the first occurrence is removed
RemoveFirst(s, sub) ==
    IF IndexOf(s, sub) = 0 THEN s
    ELSE SubSeq(s, 1, IndexOf(s, sub) - 1) \o From(s, IndexOf(s, sub) + Len(sub))

-----------------------------------------------------------------------------
(* parseWordToQuestions: the regular expressions *)

NumberDelims == {".", "dun", ")", "fw)", " "}
OptionLetters == {"A", "B", "C", "D", "E", "F", "a", "b", "c", "d", "e", "f"}
OptionDelims == {".", "dun", ")", "fw)", ":", "fw:", " "}
Bullets == {"o", "O", "bullet"}
AnswerDelims == {":", "fw:", " "}
LabelDelims == {"fw:", ":", "dun", " "}
OpenParens == {"(", "fw("}
CloseParens == {")", "fw)"}
JudgementSymbols ==
    {"sqrt", "times", "check", "cross", "T", "F", "t", "f",
     "dui", "cuo", "shi", "fou", "Y", "y", "N", "n"}
ChineseNumerals ==
    {"num1", "num2", "num3", "num4", "num5", "num6", "num7", "num8", "num9", "num10"}

\* /^(\d+)[.、\)）\s]/ : the length of the match, 0 when there is none
questionNumberRegex(line) ==
    LET q == SkipChars(line, 1, DigitChars)
    IN  IF q > 1 /\ q <= Len(line) /\ line[q] \in NumberDelims THEN q ELSE 0

\* (?:[o•·*◦▪▫■□●○◆◇★☆]\s*)?([A-F])[.、\)）:：\s] with the i flag, matched
\* at position p: the length of the match (0 when there is none) and the
\* letter captured
MarkerAt(s, p) ==
    LET q == IF p <= Len(s) /\ s[p] \in Bullets
             THEN SkipChars(s, p + 1, Whitespace)
             ELSE p
    IN  IF q + 1 <= Len(s) /\ s[q] \in OptionLetters /\ s[q + 1] \in OptionDelims
        THEN [len |-> q + 2 - p, label |-> s[q]]
        ELSE [len |-> 0, label |-> ""]

\* /^(?:[o•·*◦▪▫■□●○◆◇★☆]\s*)?([A-F])[.、\)）:：\s]/i
optionStartRegex(line) == MarkerAt(line, 1)

\* one alternative w of answerRegex: w, then [:：\s]* (greedy, giving a
\* character back when nothing is left for the group), then (.+)$
AnswerAlternative(line, w) ==
    LET rest == From(line, Len(w) + 1)
        d == SkipChars(rest, 1, AnswerDelims)
    IN  IF ~StartsWithIgnoreCase(line, w) \/ rest = <<>>
        THEN [matched |-> FALSE, capture |-> <<>>]
        ELSE IF d <= Len(rest)
        THEN [matched |-> TRUE, capture |-> From(rest, d)]
        ELSE [matched |-> TRUE, capture |-> <<rest[Len(rest)]>>]

\* /^(?:答案|Answer|答|正确答案)[:：\s]*(.+)$/i : whether it matches, and match[1]
answerRegex(line) ==
    LET alternatives ==
            <<AnswerAlternative(line, <<"da", "an">>),
              AnswerAlternative(line, <<"A", "n", "s", "w", "e", "r">>),
              AnswerAlternative(line, <<"da">>),
              AnswerAlternative(line, <<"zheng", "que", "da", "an">>)>>
        hits == {k \in 1..4 : alternatives[k].matched}
    IN  IF hits = {} THEN [matched |-> FALSE, capture |-> <<>>]
        ELSE alternatives[CHOOSE k \in hits : \A m \in hits : k <= m]

\* /[\(（]\s*([√×✓✗TFtf对错是否YyNn])\s*[\)）]\s*$/ : whether it matches,
\* where the match starts, and match[1]; match[0] runs to the end of s
judgementMarkRegex(s) ==
    LET close == SkipBack(s, Len(s), Whitespace)
        symbol == SkipBack(s, close - 1, Whitespace)
        open == SkipBack(s, symbol - 1, Whitespace)
    IN  IF /\ open >= 1
           /\ s[close] \in CloseParens
           /\ s[symbol] \in JudgementSymbols
           /\ s[open] \in OpenParens
        THEN [matched |-> TRUE, index |-> open, symbol |-> s[symbol]]
        ELSE [matched |-> FALSE, index |-> 0, symbol |-> ""]

\* /^(?:第[一二三四五六七八九十\d]+章|[一二三四五六七八九十]、|第\d+节)/
chapterRegex(line) ==
    LET afterNumerals == SkipChars(line, 2, ChineseNumerals \cup DigitChars)
        afterDigits == SkipChars(line, 2, DigitChars)
    IN  \/ /\ Len(line) >= 3 /\ line[1] = "di"
           /\ afterNumerals > 2 /\ afterNumerals <= Len(line)
           /\ line[afterNumerals] = "zhang"
        \/ /\ Len(line) >= 2 /\ line[1] \in ChineseNumerals /\ line[2] = "dun"
        \/ /\ Len(line) >= 3 /\ line[1] = "di"
           /\ afterDigits > 2 /\ afterDigits <= Len(line)
           /\ line[afterDigits] = "jie"

\* the alternatives of the four type-label expressions, in their order
JudgementLabels == << <<"pan", "duan", "ti">>, <<"pan", "duan">>, <<"shi", "fei", "ti">> >>
MultiLabels ==
    << <<"duo", "xuan", "ti">>, <<"duo", "xuan">>, <<"duo", "xiang", "xuan", "ze", "ti">> >>
SingleLabels == << <<"dan", "xuan", "ti">>, <<"dan", "xuan">>, <<"xuan", "ze", "ti">> >>
ShortLabels == << <<"jian", "da", "ti">>, <<"wen", "da", "ti">>, <<"tian", "kong", "ti">> >>

\* title.match(/^(a|b|c)/i): the length of the first alternative that
\* matches, 0 when none does
LabelMatch(title, labels) ==
    LET hits == {k \in 1..Len(labels) : StartsWithIgnoreCase(title, labels[k])}
    IN  IF hits = {} THEN 0
        ELSE Len(labels[CHOOSE k \in hits : \A m \in hits : k <= m])

\* title.replace(/^(a|b|c)[：:、\s]*/i, '') after a match of length n
StripLabel(title, n) == From(title, SkipChars(title, n + 1, LabelDelims))

-----------------------------------------------------------------------------
(* parseWordToQuestions: questions, options, types *)

\* '未知', the type of a question that carries no label
TypeUnknown == "unknown"

\* '正确' and '错误'
AnswerTrue == <<"zheng", "que">>
AnswerFalse == <<"cuo", "wu">>

\* `answer: null`.  Every read of q.answer in the code is by truthiness
\* (q.answer || '', if (q.answer)) and a captured answer is never the empty
\* string, so null is the empty sequence
NoAnswer == <<>>

\* `currentQuestion = null`
NoQuestion ==
    [id |-> 0, title |-> <<>>, options |-> <<>>, answer |-> NoAnswer, type |-> "null"]

\* the object literal of a new question
NewQuestion(id, title, type) ==
    [id |-> id, title |-> title, options |-> <<>>, answer |-> NoAnswer, type |-> type]

ShortTextThreshold == 10

\* /^[√×✓✗]$/ or /^(正确|错误|对|错|是|否|T|F|True|False)$/i
TrueWords ==
    { <<"sqrt">>, <<"check">>, AnswerTrue, <<"dui">>, <<"shi">>, <<"t">>,
      <<"t", "r", "u", "e">> }
FalseWords ==
    { <<"times">>, <<"cross">>, AnswerFalse, <<"cuo">>, <<"fou">>, <<"f">>,
      <<"f", "a", "l", "s", "e">> }
IsJudgementWord(ans) == ToLowerCase(ans) \in TrueWords \cup FalseWords

\* /^[A-F]+$/i
IsLetters(ans) == ans # <<>> /\ \A k \in DOMAIN ans : ans[k] \in OptionLetters

\* inferQuestionType with the tests of the letters before the test of the
\* judgment vocabulary
inferLettersFirst(q) ==
    LET ans == q.answer
    IN  IF q.type # TypeUnknown THEN q
        ELSE IF IsLetters(ans) /\ Len(ans) >= 2
        THEN [q EXCEPT !.type = TypeMulti, !.answer = ToUpperCase(ans)]
        ELSE IF IsLetters(ans)
        THEN [q EXCEPT !.type = TypeSingle, !.answer = ToUpperCase(ans)]
        ELSE IF IsJudgementWord(ans)
        THEN [q EXCEPT !.type = TypeJudgment,
                       !.answer = IF ToLowerCase(ans) \in TrueWords
                                  THEN AnswerTrue ELSE AnswerFalse]
        ELSE IF Len(ans) > ShortTextThreshold \/ (q.options = <<>> /\ Len(ans) > 0)
        THEN [q EXCEPT !.type = TypeShort]
        ELSE IF q.options # <<>>
        THEN [q EXCEPT !.type = TypeSingle]
        ELSE [q EXCEPT !.type = TypeShort]

\* inferQuestionType without the default of its last five lines
inferWithoutDefault(q) ==
    LET ans == q.answer
    IN  IF q.type # TypeUnknown THEN q
        ELSE IF IsJudgementWord(ans)
        THEN [q EXCEPT !.type = TypeJudgment,
                       !.answer = IF ToLowerCase(ans) \in TrueWords
                                  THEN AnswerTrue ELSE AnswerFalse]
        ELSE IF IsLetters(ans) /\ Len(ans) >= 2
        THEN [q EXCEPT !.type = TypeMulti, !.answer = ToUpperCase(ans)]
        ELSE IF IsLetters(ans)
        THEN [q EXCEPT !.type = TypeSingle, !.answer = ToUpperCase(ans)]
        ELSE IF Len(ans) > ShortTextThreshold \/ (q.options = <<>> /\ Len(ans) > 0)
        THEN [q EXCEPT !.type = TypeShort]
        ELSE q

\* inferQuestionType(q): the question after the call
inferQuestionType(q) ==
    LET ans == q.answer
    IN  IF q.type # TypeUnknown THEN q
        ELSE IF IsJudgementWord(ans)
        THEN [q EXCEPT !.type = TypeJudgment,
                       !.answer = IF ToLowerCase(ans) \in TrueWords
                                  THEN AnswerTrue ELSE AnswerFalse]
        ELSE IF IsLetters(ans) /\ Len(ans) >= 2
        THEN [q EXCEPT !.type = TypeMulti, !.answer = ToUpperCase(ans)]
        ELSE IF IsLetters(ans)
        THEN [q EXCEPT !.type = TypeSingle, !.answer = ToUpperCase(ans)]
        ELSE IF Len(ans) > ShortTextThreshold \/ (q.options = <<>> /\ Len(ans) > 0)
        THEN [q EXCEPT !.type = TypeShort]
        ELSE IF q.options # <<>>
        THEN [q EXCEPT !.type = TypeSingle]
        ELSE [q EXCEPT !.type = TypeShort]

\* symbol.match(/[√✓TtYy对是]/)
TrueSymbols == {"sqrt", "check", "T", "t", "Y", "y", "dui", "shi"}

\* extractJudgementAnswer without `if (q.answer) return`
extractJudgementAnswerAgain(q) ==
    LET match == judgementMarkRegex(q.title)
    IN  IF q.type # TypeJudgment \/ ~match.matched THEN q
        ELSE [q EXCEPT
                !.answer = IF match.symbol \in TrueSymbols THEN AnswerTrue ELSE AnswerFalse,
                !.title = TrimString(RemoveFirst(q.title, From(q.title, match.index)))]

\* extractJudgementAnswer(q): the question after the call
extractJudgementAnswer(q) ==
    LET match == judgementMarkRegex(q.title)
    IN  IF q.type # TypeJudgment \/ q.answer # NoAnswer \/ ~match.matched THEN q
        ELSE [q EXCEPT
                !.answer = IF match.symbol \in TrueSymbols THEN AnswerTrue ELSE AnswerFalse,
                !.title = TrimString(RemoveFirst(q.title, From(q.title, match.index)))]

\* what pushCurrentQuestion pushes for the question q
Finalize(q) ==
    LET typed == extractJudgementAnswer(inferQuestionType(q))
    IN  [typed EXCEPT !.title = TrimString(typed.title)]

\* one match of the expression of parseOptions, (?:^|\s) and then the
\* marker, at position p
GlobalMarkerAt(s, p) ==
    IF p = 1 /\ MarkerAt(s, 1).len > 0 THEN MarkerAt(s, 1)
    ELSE IF p <= Len(s) /\ s[p] \in Whitespace /\ MarkerAt(s, p + 1).len > 0
    THEN [len |-> MarkerAt(s, p + 1).len + 1, label |-> MarkerAt(s, p + 1).label]
    ELSE [len |-> 0, label |-> ""]

RECURSIVE MatchAllMarkers(_, _)
\* [...line.matchAll(/(?:^|\s)(?:[o•·*◦▪▫■□●○◆◇★☆]\s*)?([A-F])[.、\)）:：\s]/gi)]
\* from position p on: index (1-based), length and letter of each match
MatchAllMarkers(s, p) ==
    IF p > Len(s) THEN <<>>
    ELSE IF GlobalMarkerAt(s, p).len > 0
    THEN <<[index |-> p, len |-> GlobalMarkerAt(s, p).len,
            label |-> GlobalMarkerAt(s, p).label]>>
         \o MatchAllMarkers(s, p + GlobalMarkerAt(s, p).len)
    ELSE MatchAllMarkers(s, p + 1)

\* fullText.replace(/^(?:[o•·*◦▪▫■□●○◆◇★☆]\s*)?[A-F][.、\)）:：\s]+/i, '')
StripMarker(segment) ==
    IF MarkerAt(segment, 1).len = 0 THEN segment
    ELSE From(segment, SkipChars(segment, MarkerAt(segment, 1).len + 1, OptionDelims))

\* parseOptions(line); segment is the fullText of the code
parseOptions(line) ==
    LET matches == MatchAllMarkers(line, 1)
        match == optionStartRegex(line)
    IN  IF Len(matches) = 0 THEN <<>>
        ELSE IF Len(matches) = 1
        THEN IF match.len = 0 THEN <<>>
             ELSE <<[label |-> UpperOf(match.label),
                     content |-> TrimString(From(line, match.len + 1))]>>
        ELSE [k \in 1..Len(matches) |->
                LET start == matches[k].index
                    end == IF k < Len(matches) THEN matches[k + 1].index - 1
                           ELSE Len(line)
                    segment == TrimString(SubSeq(line, start, end))
                IN  [label |-> UpperOf(matches[k].label),
                     content |-> TrimString(StripMarker(segment))]]

-----------------------------------------------------------------------------
(* parseWordToQuestions: the loop over the lines *)

MaxWordLines == 3

\* the lines documents are made of (each trimmed and non-empty, as the
\* filter before the loop leaves them)
WordLines ==
    { <<"num1", "dun", "x">>,                              \* 一、x
      <<"1", ".", "x">>,                                   \* 1.x
      <<"2", ".", "y", "(", "sqrt", ")">>,                 \* 2.y(√)
      <<"y", "(", "times", ")">>,                          \* y(×)
      <<"(", "times", ")", "x", "(", "times", ")">>,       \* (×)x(×)
      <<"pan", "duan", ":", "x">>,                         \* 判断:x
      <<"y">>,                                             \* y
      <<"da", "an", ":", "A">>,                            \* 答案:A
      <<"da", "an", ":", "a", "b">>,                       \* 答案:ab
      <<"da", "an", ":", "sqrt">>,                         \* 答案:√
      <<"da", "an", ":", "x">>,                            \* 答案:x
      <<"da", " ", "x", "x", "x", "x", "x", "x", "x", "x", "x", "x", "x">>,
                                                           \* 答 xxxxxxxxxxx
      <<"A", ".", "x">>,                                   \* A.x
      <<"A", ".", "x", " ", "b", ".", "y">>,               \* A.x b.y
      <<"A", ".", ".", "x", " ", "B", ".", "x">>,          \* A..x B.x
      <<"A", ".", "x", "(", "sqrt", ")">>,                 \* A.x(√)
      <<"da", "an", ":", "F">> }                           \* 答案:F

WordInit ==
    /\ linesRead = <<>>
    /\ questions = <<>>
    /\ currentQuestion = NoQuestion
    /\ lastLineType = "UNKNOWN"
    /\ lastLineHadJudgementMark = FALSE
    /\ trace = <<>>
    /\ drafts = <<>>
    /\ returned = FALSE

isOptionLine(line) == optionStartRegex(line).len > 0
isAnswerLine(line) == answerRegex(line).matched
hasQuestionNumber(line) == questionNumberRegex(line) > 0
hasJudgementMark(line) == judgementMarkRegex(line).matched

\* shouldStartNew with the third disjunct not looking at the line before
shouldStartNewOnMark(line) ==
    \/ hasQuestionNumber(line)
    \/ lastLineType = "ANSWER"
    \/ hasJudgementMark(line)
    \/ currentQuestion = NoQuestion

\* shouldStartNew without its last disjunct
shouldStartNewUnlessNull(line) ==
    \/ hasQuestionNumber(line)
    \/ lastLineType = "ANSWER"
    \/ (hasJudgementMark(line) /\ lastLineHadJudgementMark)

\* const shouldStartNew = ...
shouldStartNew(line) ==
    \/ hasQuestionNumber(line)
    \/ lastLineType = "ANSWER"
    \/ (hasJudgementMark(line) /\ lastLineHadJudgementMark)
    \/ currentQuestion = NoQuestion

\* the title and the type a new question starts with
StartOf(line) ==
    LET title == IF hasQuestionNumber(line)
                 THEN TrimString(From(line, questionNumberRegex(line) + 1))
                 ELSE line
    IN  IF LabelMatch(title, JudgementLabels) > 0
        THEN [type |-> TypeJudgment,
              title |-> StripLabel(title, LabelMatch(title, JudgementLabels))]
        ELSE IF LabelMatch(title, MultiLabels) > 0
        THEN [type |-> TypeMulti,
              title |-> StripLabel(title, LabelMatch(title, MultiLabels))]
        ELSE IF LabelMatch(title, SingleLabels) > 0
        THEN [type |-> TypeSingle,
              title |-> StripLabel(title, LabelMatch(title, SingleLabels))]
        ELSE IF LabelMatch(title, ShortLabels) > 0
        THEN [type |-> TypeShort,
              title |-> StripLabel(title, LabelMatch(title, ShortLabels))]
        ELSE IF hasJudgementMark(line)
        THEN [type |-> TypeJudgment, title |-> title]
        ELSE [type |-> TypeUnknown, title |-> title]

\* pushCurrentQuestion pushing the question as it is and normalizing the
\* questions of the list at the next push
pushThenNormalize(list) ==
    IF currentQuestion = NoQuestion THEN list
    ELSE Append([k \in DOMAIN list |-> Finalize(list[k])], currentQuestion)

\* pushCurrentQuestion(): the output list after the call
pushCurrentQuestion(list) ==
    IF currentQuestion = NoQuestion THEN list
    ELSE Append(list, Finalize(currentQuestion))

\* i < lines.length: the loop has a next line to take
MoreLines == ~returned /\ Len(linesRead) < MaxWordLines

\* the loop takes the next line; class is the branch that handles it and
\* pairs the options it added
ReadLine(line, class, pairs) ==
    /\ linesRead' = Append(linesRead, line)
    /\ trace' = Append(trace, [class |-> class, line |-> line, pairs |-> pairs])
    /\ returned' = returned
    /\ UNCHANGED <<aiVars, repairVars, peer, rateVars>>

\* ChapterLine forgetting what the line before was
ChapterLineResets ==
    /\ MoreLines
    /\ \E line \in WordLines :
           /\ chapterRegex(line)
           /\ ReadLine(line, "noise", <<>>)
           /\ lastLineType' = "UNKNOWN"
           /\ lastLineHadJudgementMark' = FALSE
           /\ UNCHANGED <<questions, currentQuestion, drafts>>

\* if (chapterRegex.test(line)) continue
ChapterLine ==
    /\ MoreLines
    /\ \E line \in WordLines :
           /\ chapterRegex(line)
           /\ ReadLine(line, "noise", <<>>)
           /\ UNCHANGED <<questions, currentQuestion, lastLineType,
                          lastLineHadJudgementMark, drafts>>

\* AnswerLine keeping the answer of the first answer line of a question
AnswerLineFirstWins ==
    /\ MoreLines
    /\ \E line \in WordLines :
           /\ ~chapterRegex(line)
           /\ isAnswerLine(line)
           /\ ReadLine(line, "answer", <<>>)
           /\ currentQuestion' =
                  IF currentQuestion = NoQuestion \/ currentQuestion.answer # NoAnswer
                  THEN currentQuestion
                  ELSE [currentQuestion EXCEPT
                          !.answer = TrimString(answerRegex(line).capture)]
           /\ lastLineType' = "ANSWER"
           /\ lastLineHadJudgementMark' = FALSE
           /\ UNCHANGED <<questions, drafts>>

\* if (isAnswerLine(line)) { ... continue }
AnswerLine ==
    /\ MoreLines
    /\ \E line \in WordLines :
           /\ ~chapterRegex(line)
           /\ isAnswerLine(line)
           /\ ReadLine(line, "answer", <<>>)
           /\ currentQuestion' =
                  IF currentQuestion = NoQuestion THEN currentQuestion
                  ELSE [currentQuestion EXCEPT
                          !.answer = TrimString(answerRegex(line).capture)]
           /\ lastLineType' = "ANSWER"
           /\ lastLineHadJudgementMark' = FALSE
           /\ UNCHANGED <<questions, drafts>>

\* if (isOptionLine(line)) { ... continue }
OptionLine ==
    /\ MoreLines
    /\ \E line \in WordLines :
           /\ ~chapterRegex(line)
           /\ ~isAnswerLine(line)
           /\ isOptionLine(line)
           /\ ReadLine(line, "option",
                       IF currentQuestion = NoQuestion THEN <<>> ELSE parseOptions(line))
           /\ currentQuestion' =
                  IF currentQuestion = NoQuestion THEN currentQuestion
                  ELSE [currentQuestion EXCEPT !.options = @ \o parseOptions(line)]
           /\ lastLineType' = "OPTION"
           /\ lastLineHadJudgementMark' = FALSE
           /\ UNCHANGED <<questions, drafts>>

\* StartQuestion with the decision taken before the test of isOptionLine
StartQuestionFirst ==
    /\ MoreLines
    /\ \E line \in WordLines :
           /\ ~chapterRegex(line)
           /\ ~isAnswerLine(line)
           /\ shouldStartNew(line)
           /\ ReadLine(line, "start", <<>>)
           /\ questions' = pushCurrentQuestion(questions)
           /\ drafts' = IF currentQuestion = NoQuestion THEN drafts
                        ELSE Append(drafts, currentQuestion)
           /\ currentQuestion' =
                  NewQuestion(Len(questions') + 1, StartOf(line).title, StartOf(line).type)
           /\ lastLineType' = "QUESTION"
           /\ lastLineHadJudgementMark' = hasJudgementMark(line)

\* if (shouldStartNew) { ... }
StartQuestion ==
    /\ MoreLines
    /\ \E line \in WordLines :
           /\ ~chapterRegex(line)
           /\ ~isAnswerLine(line)
           /\ ~isOptionLine(line)
           /\ shouldStartNew(line)
           /\ ReadLine(line, "start", <<>>)
           /\ questions' = pushCurrentQuestion(questions)
           /\ drafts' = IF currentQuestion = NoQuestion THEN drafts
                        ELSE Append(drafts, currentQuestion)
           /\ currentQuestion' =
                  NewQuestion(Len(questions') + 1, StartOf(line).title, StartOf(line).type)
           /\ lastLineType' = "QUESTION"
           /\ lastLineHadJudgementMark' = hasJudgementMark(line)

\* JoinLine putting the line before the title
JoinLineBefore(title, line) == line \o <<" ">> \o title

\* currentQuestion.title += ' ' + line
JoinLine(title, line) == title \o <<" ">> \o line

\* else { if (currentQuestion) { ... } }
ContinuationLine ==
    /\ MoreLines
    /\ \E line \in WordLines :
           /\ ~chapterRegex(line)
           /\ ~isAnswerLine(line)
           /\ ~isOptionLine(line)
           /\ ~shouldStartNew(line)
           /\ ReadLine(line,
                       IF currentQuestion = NoQuestion THEN "dropped" ELSE "continuation",
                       <<>>)
           /\ currentQuestion' =
                  IF currentQuestion = NoQuestion THEN currentQuestion
                  ELSE [currentQuestion EXCEPT
                          !.title = JoinLine(@, line),
                          !.type = IF hasJudgementMark(line) THEN TypeJudgment ELSE @]
           /\ lastLineHadJudgementMark' =
                  IF currentQuestion # NoQuestion /\ hasJudgementMark(line) THEN TRUE
                  ELSE lastLineHadJudgementMark
           /\ UNCHANGED <<questions, lastLineType, drafts>>

\* EndOfInput without the last pushCurrentQuestion()
EndOfInputNoPush ==
    /\ ~returned
    /\ returned' = TRUE
    /\ currentQuestion' = NoQuestion
    /\ UNCHANGED <<questions, drafts, linesRead, lastLineType,
                   lastLineHadJudgementMark, trace>>
    /\ UNCHANGED <<aiVars, repairVars, peer, rateVars>>

\* the loop is over: the last pushCurrentQuestion() and `return questions`
EndOfInput ==
    /\ ~returned
    /\ returned' = TRUE
    /\ questions' = pushCurrentQuestion(questions)
    /\ drafts' = IF currentQuestion = NoQuestion THEN drafts
                 ELSE Append(drafts, currentQuestion)
    /\ currentQuestion' = NoQuestion
    /\ UNCHANGED <<linesRead, lastLineType, lastLineHadJudgementMark, trace>>
    /\ UNCHANGED <<aiVars, repairVars, peer, rateVars>>

-----------------------------------------------------------------------------
(* parseWithAI *)

\* AI_CONFIG.siliconflow.apiKey is set and is not 'YOUR_API_KEY_HERE'
ApiKeyConfigured == TRUE

RetryDelayMs == 2000
ChunkDelayMs == 800

\* an entry of the log.  ev: "progress" (onProgress called), "request" (a
\* refinement request issued), "settled" (its promise settled; info is
\* "resolved" or "rejected"), "warn" / "error" (console.warn, console.error),
\* "timer" (setTimeout awaited; percent holds the milliseconds)
Event(ev, chunk, percent, info) ==
    [ev |-> ev, chunk |-> chunk, percent |-> percent, info |-> info, value |-> <<>>]

\* the "settled" entry: value is the array the promise resolved with
Settled(chunk, info, value) ==
    [ev |-> "settled", chunk |-> chunk, percent |-> -1, info |-> info, value |-> value]

\* PercentOf counting the chunks that remain instead of those done
PercentRemaining(idx, totalChunks) ==
    (200 * (totalChunks - idx) + totalChunks) \div (2 * totalChunks)

\* Math.round((idx / totalChunks) * 100), rounding halves up.  The double
\* arithmetic of the code gives the same integer for fewer than 40 chunks
\* (from 40 chunks on a tie such as 23/40 can round down instead).
PercentOf(idx, totalChunks) == (200 * idx + totalChunks) \div (2 * totalChunks)

\* PushAll with unshift in place of push
PushAllFront(list, refinedBatch) == refinedBatch \o list

\* allFinalQuestions.push(...refinedBatch)
PushAll(list, refinedBatch) == list \o refinedBatch

\* the post-processing of a received batch (the forEach and the push): the
\* list afterwards, and whether the forEach threw (q.type of a null element)
PostProcess(list, refinedBatch) ==
    IF \E k \in 1..Len(refinedBatch) : refinedBatch[k].kind = "null"
    THEN [threw |-> TRUE, list |-> list]
    ELSE [threw |-> FALSE,
          list |-> PushAll(list, [k \in 1..Len(refinedBatch) |->
                                     StripJudgeMark(refinedBatch[k])])]

\* the head of the for loop at index idx, and what follows the loop: the
\* progress report and the first request of chunk idx, or the completion
\* report and the return.  pending counts the requests in flight.
LoopHead(idx, list, lg, cs, pending) ==
    /\ i' = idx
    /\ allFinalQuestions' = list
    /\ IF idx < Len(cs)
       THEN /\ log' = lg \o <<Event("progress", idx, PercentOf(idx, Len(cs)), "parsing"),
                              Event("request", idx, -1, "first")>>
            /\ inflight' = pending + 1
            /\ pc' = "await1"
            /\ result' = result
       ELSE /\ log' = Append(lg, Event("progress", -1, 100, "complete"))
            /\ inflight' = pending
            /\ pc' = "done"
            /\ result' = "returned"

\* AfterChunk with the delay after the last chunk too
AfterChunkAlways(list, lg, pending) ==
    /\ allFinalQuestions' = list
    /\ log' = Append(lg, Event("timer", i, ChunkDelayMs, "chunkDelay"))
    /\ inflight' = pending
    /\ pc' = "delay"
    /\ UNCHANGED <<i, result>>

\* the end of the loop body: the inter-chunk delay, except after the last chunk
AfterChunk(list, lg, pending) ==
    IF i < Len(chunks) - 1
    THEN /\ allFinalQuestions' = list
         /\ log' = Append(lg, Event("timer", i, ChunkDelayMs, "chunkDelay"))
         /\ inflight' = pending
         /\ pc' = "delay"
         /\ UNCHANGED <<i, result>>
    ELSE LoopHead(i + 1, list, lg, chunks, pending)

\* ChunkFailed without the outer catch: the error leaves parseWithAI
ChunkFailedRethrow(lg, pending) ==
    /\ log' = lg
    /\ inflight' = pending
    /\ pc' = "done"
    /\ result' = "threw"
    /\ UNCHANGED <<i, allFinalQuestions>>

\* the outer catch: the chunk failed
ChunkFailed(lg, pending) ==
    AfterChunk(Append(allFinalQuestions, Placeholder(chunks[i + 1])),
               Append(lg, Event("error", i, -1, "chunkFailed")), pending)

\* Received with each question pushed inside the forEach: the questions
\* before the element that throws stay in the list, before the placeholder
ReceivedPushingEach(refinedBatch, lg, pending) ==
    LET post == PostProcess(allFinalQuestions, refinedBatch)
        firstNull == CHOOSE k \in 1..Len(refinedBatch) :
                         /\ refinedBatch[k].kind = "null"
                         /\ \A m \in 1..(k - 1) : refinedBatch[m].kind # "null"
    IN  IF post.threw
        THEN AfterChunk(Append(PushAll(allFinalQuestions,
                                       [k \in 1..(firstNull - 1) |->
                                           StripJudgeMark(refinedBatch[k])]),
                               Placeholder(chunks[i + 1])),
                        Append(lg, Event("error", i, -1, "chunkFailed")), pending)
        ELSE AfterChunk(post.list, lg, pending)

\* a batch was received for chunk i: post-process it and push it; a throw
\* of the post-processing lands in the outer catch
Received(refinedBatch, lg, pending) ==
    LET post == PostProcess(allFinalQuestions, refinedBatch)
    IN  IF post.threw
        THEN ChunkFailed(lg, pending)
        ELSE AfterChunk(post.list, lg, pending)

\* parseWithAI from its first line to its first await
ParseStart ==
    IF ~ApiKeyConfigured \/ ~isString
    THEN /\ pc' = "done"
         /\ result' = "threw"
         /\ UNCHANGED <<chunks, i, allFinalQuestions, inflight, log>>
    ELSE /\ chunks' = splitTextIntoChunks(fullText, TargetSize)
         /\ LoopHead(0, <<>>, <<>>, chunks', inflight)

\* a direct call of the exported parseWithAI
ParseWithAI ==
    /\ pc = "init"
    /\ ParseStart
    /\ UNCHANGED <<isString, fullText>>
    /\ UNCHANGED <<repairVars, wordVars, peer, rateVars>>

\* POST /api/upload/ai: the text extracted from the upload is refused when it
\* is the empty string, and is handed to parseWithAI otherwise
UploadAI ==
    /\ pc = "upload"
    /\ IF fullText = <<>>
       THEN /\ pc' = "done"
            /\ result' = "uploadError"
            /\ UNCHANGED <<chunks, i, allFinalQuestions, inflight, log>>
       ELSE ParseStart
    /\ UNCHANGED <<isString, fullText>>
    /\ UNCHANGED <<repairVars, wordVars, peer, rateVars>>

\* the first request of chunk i settles
FirstSettles ==
    /\ pc = "await1"
    /\ \E resp \in Responses :
         LET r == refineQuestionsWithAI(resp)
         IN  IF r.ok
             THEN Received(r.value, Append(log, Settled(i, "resolved", r.value)),
                           inflight - 1)
             ELSE /\ log' = log \o <<Settled(i, "rejected", <<>>),
                                     Event("warn", i, -1, "retrying"),
                                     Event("timer", i, RetryDelayMs, "retryDelay")>>
                  /\ inflight' = inflight - 1
                  /\ pc' = "retryDelay"
                  /\ UNCHANGED <<i, allFinalQuestions, result>>
    /\ UNCHANGED <<isString, fullText, chunks>>
    /\ UNCHANGED <<repairVars, wordVars, peer, rateVars>>

\* RetryRequest without the await: the loop body goes on with the pending
\* promise, whose forEach throws, while the request is still in flight
RetryRequestNoAwait ==
    /\ pc = "retryDelay"
    /\ ChunkFailed(Append(log, Event("request", i, -1, "retry")), inflight + 1)
    /\ UNCHANGED <<isString, fullText, chunks>>
    /\ UNCHANGED <<repairVars, wordVars, peer, rateVars>>

\* the 2000 ms timer fires and the request is issued once more
RetryRequest ==
    /\ pc = "retryDelay"
    /\ log' = Append(log, Event("request", i, -1, "retry"))
    /\ inflight' = inflight + 1
    /\ pc' = "await2"
    /\ UNCHANGED <<isString, fullText, chunks, i, allFinalQuestions, result>>
    /\ UNCHANGED <<repairVars, wordVars, peer, rateVars>>

\* RetrySettles retrying until the request succeeds
RetrySettlesAgain ==
    /\ pc = "await2"
    /\ \E resp \in Responses :
         LET r == refineQuestionsWithAI(resp)
         IN  IF r.ok
             THEN Received(r.value, Append(log, Settled(i, "resolved", r.value)),
                           inflight - 1)
             ELSE /\ log' = log \o <<Settled(i, "rejected", <<>>),
                                     Event("timer", i, RetryDelayMs, "retryDelay")>>
                  /\ inflight' = inflight - 1
                  /\ pc' = "retryDelay"
                  /\ UNCHANGED <<i, allFinalQuestions, result>>
    /\ UNCHANGED <<isString, fullText, chunks>>
    /\ UNCHANGED <<repairVars, wordVars, peer, rateVars>>

\* the retry of chunk i settles
RetrySettles ==
    /\ pc = "await2"
    /\ \E resp \in Responses :
         LET r == refineQuestionsWithAI(resp)
         IN  IF r.ok
             THEN Received(r.value, Append(log, Settled(i, "resolved", r.value)),
                           inflight - 1)
             ELSE ChunkFailed(Append(log, Settled(i, "rejected", <<>>)), inflight - 1)
    /\ UNCHANGED <<isString, fullText, chunks>>
    /\ UNCHANGED <<repairVars, wordVars, peer, rateVars>>

\* the 800 ms timer fires and the loop goes on with the next chunk
NextChunk ==
    /\ pc = "delay"
    /\ LoopHead(i + 1, allFinalQuestions, log, chunks, inflight)
    /\ UNCHANGED <<isString, fullText, chunks>>
    /\ UNCHANGED <<repairVars, wordVars, peer, rateVars>>

Init ==
    /\ pc \in {"init", "upload"}
    /\ isString \in BOOLEAN
    /\ fullText \in Texts
    /\ isString = FALSE => (pc = "init" /\ fullText = <<>>)
    /\ chunks = <<>>
    /\ i = 0
    /\ allFinalQuestions = <<>>
    /\ inflight = 0
    /\ log = <<>>
    /\ result = "none"
    /\ peer = NoInvocation
    /\ RepairIdle
    /\ WordInit
    /\ RateIdle

Next ==
    \/ ParseWithAI
    \/ UploadAI
    \/ FirstSettles
    \/ RetryRequest
    \/ RetrySettles
    \/ NextChunk

Spec == Init /\ [][Next]_vars

-----------------------------------------------------------------------------
(* The heuristic parser and the refinement call on their own *)

InitWord == WordInit /\ AIIdle /\ RepairIdle /\ RateIdle

NextWord ==
    \/ ChapterLine
    \/ AnswerLine
    \/ OptionLine
    \/ StartQuestion
    \/ ContinuationLine
    \/ EndOfInput

SpecWord == InitWord /\ [][NextWord]_vars

InitRepair ==
    /\ response \in RepairResponses
    /\ promise = PendingPromise
    /\ idleMs = 0
    /\ AIIdle
    /\ WordInit
    /\ RateIdle

NextRepair == PromiseSettles

SpecRepair == InitRepair /\ [][NextRepair]_vars

-----------------------------------------------------------------------------
(* splitTextIntoChunks on its own *)

MaxChunkLines == 3

\* the lines of the documents that are split: those of DocLines, a short and
\* a long numbered line (50 and 1400 characters), and two unnumbered lines,
\* one of 1000 characters and one longer than 1.5 times the target size
ChunkLines ==
    DocLines \cup
    { <<Run("1", 1), Run(".", 1), Run("x", 48)>>,
      <<Run("1", 1), Run(".", 1), Run("x", 1398)>>,
      <<Run("x", 1000)>>,
      <<Run("x", 2300)>> }

ChunkTexts == {JoinLines(ls) : ls \in SeqsUpTo(ChunkLines, MaxChunkLines) \ {<<>>}}

\* const chunks = splitTextIntoChunks(fullText, 1500)
SplitText ==
    /\ pc = "split"
    /\ chunks' = splitTextIntoChunks(fullText, TargetSize)
    /\ pc' = "splitDone"
    /\ UNCHANGED <<isString, fullText, i, allFinalQuestions, inflight, log, result>>
    /\ UNCHANGED <<repairVars, wordVars, peer, rateVars>>

InitChunk ==
    /\ pc = "split"
    /\ isString = TRUE
    /\ fullText \in ChunkTexts
    /\ chunks = <<>>
    /\ i = 0
    /\ allFinalQuestions = <<>>
    /\ inflight = 0
    /\ log = <<>>
    /\ result = "none"
    /\ peer = NoInvocation
    /\ RepairIdle
    /\ WordInit
    /\ RateIdle

NextChunkText == SplitText

SpecChunk == InitChunk /\ [][NextChunkText]_vars

-----------------------------------------------------------------------------
(* One call of refineQuestionsWithAI and the socket of its request *)

\* req.setTimeout(600000, ...): the socket times out after this many
\* milliseconds without activity
SocketTimeoutMs == 600000

\* an endpoint of kind "timeout" never ends its response
EndpointEnds == response.kind # "timeout"

\* res.on('data', chunk => { data += chunk }): bytes of the response arrive
\* and the idle time of the socket starts again
DataArrives ==
    /\ ~promise.settled
    /\ response.kind \notin {"networkError"}
    /\ idleMs < SocketTimeoutMs
    /\ idleMs' = 0
    /\ UNCHANGED <<response, promise, aiVars, wordVars, peer, rateVars>>

\* five minutes pass in which nothing arrives on the socket
TimePasses ==
    /\ ~promise.settled
    /\ idleMs < SocketTimeoutMs
    /\ idleMs' = idleMs + SocketTimeoutMs \div 2
    /\ UNCHANGED <<response, promise, aiVars, wordVars, peer, rateVars>>

\* req.setTimeout's callback: req.destroy() and reject
TimeoutFires ==
    /\ ~promise.settled
    /\ idleMs = SocketTimeoutMs
    /\ promise' = [settled |-> TRUE, ok |-> FALSE, value |-> <<>>]
    /\ UNCHANGED <<response, idleMs, aiVars, wordVars, peer, rateVars>>

\* res.on('end') or req.on('error'): the endpoint ends the response, or the
\* request fails
ResponseEnds ==
    /\ EndpointEnds
    /\ PromiseSettles

MaxCallContent == 2

\* every failure of the request, and every content string of at most
\* MaxCallContent tokens
CallResponses ==
    {r \in RepairResponses : Len(r.content) <= MaxCallContent}

InitCall ==
    /\ response \in CallResponses
    /\ promise = PendingPromise
    /\ idleMs = 0
    /\ AIIdle
    /\ WordInit
    /\ RateIdle

NextCall ==
    \/ DataArrives
    \/ TimePasses
    \/ TimeoutFires
    \/ ResponseEnds

\* time passes, a timer that is due fires, and an endpoint that ends its
\* response does so; nothing makes an endpoint send or stop sending
SpecCall ==
    /\ InitCall
    /\ [][NextCall]_vars
    /\ WF_vars(TimePasses)
    /\ WF_vars(TimeoutFires)
    /\ WF_vars(ResponseEnds)

-----------------------------------------------------------------------------
(* Two invocations of parseWithAI whose steps interleave *)

\* the documents of the two invocations: one of one chunk and one of two
TwoTexts ==
    { <<Run("x", 800)>>,
      JoinLines(<< <<Run("1", 1), Run(".", 1), Run("x", 798)>>,
                   <<Run("1", 1), Run(".", 1), Run("x", 798)>> >>) }

\* the variables of an invocation that has been called with `text`
Called(entry, text) ==
    [pc |-> entry, isString |-> TRUE, fullText |-> text, chunks |-> <<>>,
     i |-> 0, allFinalQuestions |-> <<>>, inflight |-> 0, log |-> <<>>,
     result |-> "none"]

\* the variables of the invocation that is being followed
CurrentInvocation ==
    [pc |-> pc, isString |-> isString, fullText |-> fullText, chunks |-> chunks,
     i |-> i, allFinalQuestions |-> allFinalQuestions, inflight |-> inflight,
     log |-> log, result |-> result]

\* Switch for a list that is a variable of the module and not of the call
SwitchSharedList ==
    /\ peer.pc # "idle"
    /\ pc' = peer.pc
    /\ isString' = peer.isString
    /\ fullText' = peer.fullText
    /\ chunks' = peer.chunks
    /\ i' = peer.i
    /\ inflight' = peer.inflight
    /\ log' = peer.log
    /\ result' = peer.result
    /\ peer' = CurrentInvocation
    /\ UNCHANGED <<allFinalQuestions, repairVars, wordVars, rateVars>>

\* the event loop turns to the other invocation: every variable of
\* parseWithAI is a local of the call (const chunks, const allFinalQuestions,
\* let i, ...), so each invocation finds its own values again
Switch ==
    /\ peer.pc # "idle"
    /\ pc' = peer.pc
    /\ isString' = peer.isString
    /\ fullText' = peer.fullText
    /\ chunks' = peer.chunks
    /\ i' = peer.i
    /\ allFinalQuestions' = peer.allFinalQuestions
    /\ inflight' = peer.inflight
    /\ log' = peer.log
    /\ result' = peer.result
    /\ peer' = CurrentInvocation
    /\ UNCHANGED <<repairVars, wordVars, rateVars>>

InitTwo ==
    /\ pc \in {"init", "upload"}
    /\ isString = TRUE
    /\ fullText \in TwoTexts
    /\ chunks = <<>>
    /\ i = 0
    /\ allFinalQuestions = <<>>
    /\ inflight = 0
    /\ log = <<>>
    /\ result = "none"
    /\ \E entry \in {"init", "upload"}, text \in TwoTexts :
         peer = Called(entry, text)
    /\ RepairIdle
    /\ WordInit
    /\ RateIdle

NextTwo ==
    \/ Next
    \/ Switch

SpecTwo == InitTwo /\ [][NextTwo]_vars

-----------------------------------------------------------------------------
(* Either path: the heuristic parser runs, or parseWithAI does *)

\* parseWordToQuestions is not running
WordOver ==
    /\ linesRead = <<>>
    /\ questions = <<>>
    /\ currentQuestion = NoQuestion
    /\ lastLineType = "UNKNOWN"
    /\ lastLineHadJudgementMark = FALSE
    /\ trace = <<>>
    /\ drafts = <<>>
    /\ returned = TRUE

InitPaths ==
    \/ InitWord
    \/ /\ pc \in {"init", "upload"}
       /\ isString = TRUE
       /\ fullText \in TwoTexts
       /\ chunks = <<>>
       /\ i = 0
       /\ allFinalQuestions = <<>>
       /\ inflight = 0
       /\ log = <<>>
       /\ result = "none"
       /\ peer = NoInvocation
       /\ RepairIdle
       /\ WordOver
       /\ RateIdle

NextPaths ==
    \/ NextWord
    \/ Next

SpecPaths == InitPaths /\ [][NextPaths]_vars

-----------------------------------------------------------------------------
(* POST /api/exam/rate: requests whose queries interleave *)

\* what the requests send: the exam that exists and one that does not; a
\* rating below 1 and two ratings within 1..5
ExamIdsSent == {1, 2}
ExistingExams == {1}
RatingsSent == {0, 3, 5}

\* Math.round(((oldRate * oldNums) + ratingNum) / newNums * 10) / 10, in
\* tenths, rounding halves up
roundedAvg(oldRate, oldNums, ratingNum) ==
    (2 * (oldRate * oldNums + 10 * ratingNum) + (oldNums + 1)) \div (2 * (oldNums + 1))

\* the request r moves to the position at with the status given
Answered(r, status) ==
    rateReq' = [rateReq EXCEPT ![r].at = "done", ![r].status = status]

\* the handler up to its first query: the checks of the body (400), then
\* pool.getConnection() and beginTransaction()
RateRequest ==
    \E r \in Raters, id \in ExamIdsSent, rating \in RatingsSent :
        /\ rateReq[r].at = "idle"
        /\ rateReq' =
               [rateReq EXCEPT
                   ![r] = IF rating < 1 \/ rating > 5
                          THEN [@ EXCEPT !.at = "done", !.status = 400]
                          ELSE [@ EXCEPT !.at = "begun", !.exam_id = id,
                                         !.ratingNum = rating]]
        /\ UNCHANGED <<examRow, rowLock>>
        /\ UNCHANGED <<aiVars, repairVars, wordVars, peer>>

\* SELECT id, rate, ratenums FROM exams WHERE id = ?: a plain SELECT, which
\* InnoDB answers from the committed row without taking a lock; no row: 404
SelectRow ==
    \E r \in Raters :
        /\ rateReq[r].at = "begun"
        /\ IF rateReq[r].exam_id \in ExistingExams
           THEN rateReq' = [rateReq EXCEPT ![r].at = "selected",
                                           ![r].oldRate = examRow.rate,
                                           ![r].oldNums = examRow.ratenums]
           ELSE Answered(r, 404)
        /\ UNCHANGED <<examRow, rowLock>>
        /\ UNCHANGED <<aiVars, repairVars, wordVars, peer>>

\* UPDATE exams SET rate = ?, ratenums = ? WHERE id = ?: the statement
\* waits for the lock of the row and holds it until the transaction ends
UpdateRow ==
    \E r \in Raters :
        /\ rateReq[r].at = "selected"
        /\ rowLock = 0
        /\ rowLock' = r
        /\ rateReq' = [rateReq EXCEPT ![r].at = "updated"]
        /\ UNCHANGED examRow
        /\ UNCHANGED <<aiVars, repairVars, wordVars, peer>>

\* the UPDATE gives up waiting for the lock: the query rejects, the catch
\* rolls back and the request is answered with 500
UpdateFails ==
    \E r \in Raters :
        /\ rateReq[r].at = "selected"
        /\ rowLock # 0
        /\ Answered(r, 500)
        /\ UNCHANGED <<examRow, rowLock>>
        /\ UNCHANGED <<aiVars, repairVars, wordVars, peer>>

\* connection.commit() and res.json({ success: true, ... })
CommitRating ==
    \E r \in Raters :
        /\ rateReq[r].at = "updated"
        /\ examRow' = [rate |-> roundedAvg(rateReq[r].oldRate, rateReq[r].oldNums,
                                            rateReq[r].ratingNum),
                       ratenums |-> rateReq[r].oldNums + 1]
        /\ rowLock' = 0
        /\ Answered(r, 200)
        /\ UNCHANGED <<aiVars, repairVars, wordVars, peer>>

InitRate == RateIdle /\ AIIdle /\ RepairIdle /\ WordInit

NextRate ==
    \/ RateRequest
    \/ SelectRow
    \/ UpdateRow
    \/ UpdateFails
    \/ CommitRating

SpecRate == InitRate /\ [][NextRate]_vars

-----------------------------------------------------------------------------
(* Reading the log *)

RECURSIVE DropChars(_, _)
\* s.substring(k)
DropChars(s, k) ==
    IF s = <<>> \/ k <= 0 THEN s
    ELSE IF s[1].n > k THEN <<Run(s[1].c, s[1].n - k)>> \o Tail(s)
    ELSE DropChars(Tail(s), k - s[1].n)

\* text ends with the whole of part
EndsWith(text, part) ==
    /\ StrLen(text) >= StrLen(part)
    /\ DropChars(text, StrLen(text) - StrLen(part)) = part

ChunkIndexes == 0..(Len(chunks) - 1)

\* positions of the log
RequestsOf(c) == {k \in DOMAIN log : log[k].ev = "request" /\ log[k].chunk = c}
SettledOf(c) == {k \in DOMAIN log : log[k].ev = "settled" /\ log[k].chunk = c}
RejectedOf(c) == {k \in SettledOf(c) : log[k].info = "rejected"}
ProgressPositions == {k \in DOMAIN log : log[k].ev = "progress"}

\* the chunks whose loop body has run to its end
Completed == IF pc = "delay" THEN i + 1 ELSE i

LastLogIs100 ==
    /\ log # <<>>
    /\ log[Len(log)].ev = "progress"
    /\ log[Len(log)].percent = 100
    /\ log[Len(log)].info = "complete"

-----------------------------------------------------------------------------
(* C1 *)

\* the step in which the retry of chunk i is rejected
RetryRejectedStep ==
    /\ pc = "await2"
    /\ Len(log') > Len(log)
    /\ log'[Len(log) + 1] = Settled(i, "rejected", <<>>)

\* C1: when the first call and the retry of a chunk both fail, exactly one
\* question is appended for the chunk, of type ShortAnswer and with an answer
\* that ends with the whole chunk text; no exception leaves parseWithAI; the
\* loop goes on to the next chunk (after the delay) or, after the last chunk,
\* returns with 100% as the last progress call.
C1_DoubleFailure ==
    RetryRejectedStep =>
        /\ Len(allFinalQuestions') = Len(allFinalQuestions) + 1
        /\ SubSeq(allFinalQuestions', 1, Len(allFinalQuestions)) = allFinalQuestions
        /\ LET q == allFinalQuestions'[Len(allFinalQuestions')]
           IN  /\ q.kind = "object"
               /\ q.type = TypeShort
               /\ EndsWith(q.answer, chunks[i + 1])
        /\ IF i < Len(chunks) - 1
           THEN pc' = "delay" /\ result' = "none"
           ELSE pc' = "done" /\ result' = "returned" /\ LastLogIs100'

C1_Continues ==
    pc = "delay" =>
        /\ pc' = "await1"
        /\ i' = i + 1
        /\ log'[Len(log')] = Event("request", i + 1, -1, "first")

C1_PlaceholderOnDoubleFailure ==
    /\ [][C1_DoubleFailure]_vars
    /\ [][C1_Continues]_vars
    /\ [](\A c \in ChunkIndexes : Cardinality(RejectedOf(c)) = 2 => result \in {"none", "returned"})
    /\ [](result = "returned" => LastLogIs100)

\* a document of three chunks has returned, its second chunk having failed twice
C1_Witness ==
    /\ result = "returned"
    /\ Len(chunks) = 3
    /\ Cardinality(RejectedOf(1)) = 2
    /\ Len(allFinalQuestions) >= 3

-----------------------------------------------------------------------------
(* C2 *)

\* the step that ends the loop body of chunk i (its attempts have settled)
ChunkEndsStep == pc \in {"await1", "await2"} /\ pc' \in {"delay", "done"}

\* C2: no chunk is lost: whatever the endpoint does, the loop body of a chunk
\* leaves at least one question of that chunk in the list.
C2_NoChunkLost ==
    [][ChunkEndsStep => Len(allFinalQuestions') > Len(allFinalQuestions)]_vars

-----------------------------------------------------------------------------
(* C3 *)

\* C3: per chunk at most two requests, one first call and at most one retry;
\* the retry follows a rejected first call and the 2000 ms timer; nothing is
\* requested for a chunk once one of its calls has resolved.
C3_AtMostTwoCalls ==
    \A c \in ChunkIndexes :
        /\ Cardinality(RequestsOf(c)) <= 2
        /\ Cardinality({k \in RequestsOf(c) : log[k].info = "first"}) <= 1
        /\ \A k \in RequestsOf(c) :
             log[k].info = "retry" =>
                \E f \in RequestsOf(c), s \in RejectedOf(c), t \in DOMAIN log :
                    /\ f < s /\ s < t /\ t < k
                    /\ log[f].info = "first"
                    /\ log[t] = Event("timer", c, RetryDelayMs, "retryDelay")
        /\ \A s \in SettledOf(c) :
             log[s].info = "resolved" => \A k \in RequestsOf(c) : k < s
        /\ (SettledOf(c) # {} /\ RejectedOf(c) = {}) => Cardinality(RequestsOf(c)) = 1

\* a returned document in which one chunk was called once, one was retried
\* with success and one failed twice
C3_Witness ==
    /\ result = "returned"
    /\ \E a, b, c \in ChunkIndexes :
         /\ Cardinality(RequestsOf(a)) = 1
         /\ Cardinality(RequestsOf(b)) = 2 /\ Cardinality(RejectedOf(b)) = 1
         /\ Cardinality(RequestsOf(c)) = 2 /\ Cardinality(RejectedOf(c)) = 2

-----------------------------------------------------------------------------
(* C4 *)

\* C4: every emitted question has a title that is non-empty after trimming.
C4_TitlesNonEmpty ==
    \A k \in DOMAIN allFinalQuestions : StrLen(Trim(allFinalQuestions[k].title)) > 0

-----------------------------------------------------------------------------
(* C5 *)

IsBlank(text) == StrLen(Trim(text)) = 0

\* C5: an empty or whitespace-only input text ends the extraction with an
\* error, never with a returned question list.
C5_BlankInputFails ==
    (isString /\ IsBlank(fullText) /\ pc = "done") => result \in {"threw", "uploadError"}

-----------------------------------------------------------------------------
(* C6 *)

LastSettledOf(c) == CHOOSE k \in SettledOf(c) : \A m \in SettledOf(c) : m <= k

\* what chunk c contributes, from what the endpoint answered for it
ContributionOf(c) ==
    LET e == log[LastSettledOf(c)]
    IN  IF e.info = "resolved" /\ \A k \in DOMAIN e.value : e.value[k].kind = "object"
        THEN [k \in DOMAIN e.value |-> StripJudgeMark(e.value[k])]
        ELSE <<Placeholder(chunks[c + 1])>>

RECURSIVE ContributionsUpTo(_)
ContributionsUpTo(n) ==
    IF n = 0 THEN <<>> ELSE ContributionsUpTo(n - 1) \o ContributionOf(n - 1)

\* C6: the list is the concatenation, in chunk order, of the contributions of
\* the chunks processed so far, each in the order of the endpoint's array.
C6_ChunkOrder == allFinalQuestions = ContributionsUpTo(Completed)

\* a returned document of two chunks or more whose first chunk contributed
\* two questions and whose last chunk contributed one
C6_Witness ==
    /\ result = "returned"
    /\ Len(chunks) >= 2
    /\ Len(ContributionOf(0)) = 2
    /\ Len(ContributionOf(Len(chunks) - 1)) = 1
    /\ ContributionOf(0)[1] # ContributionOf(0)[2]
    /\ ContributionOf(0)[2] # ContributionOf(Len(chunks) - 1)[1]

-----------------------------------------------------------------------------
(* C7 *)

AllRequests == {k \in DOMAIN log : log[k].ev = "request"}
AllSettled == {k \in DOMAIN log : log[k].ev = "settled"}

\* C7: at most one request is in flight, and when the first request of
\* chunk c + 1 is issued, chunk c has had its progress report and every
\* request of chunk c has settled.
C7_Sequential ==
    /\ inflight \in {0, 1}
    /\ inflight = Cardinality(AllRequests) - Cardinality(AllSettled)
    /\ \A k \in AllRequests :
         (log[k].info = "first" /\ log[k].chunk > 0) =>
            LET c == log[k].chunk - 1
            IN  /\ \E p \in ProgressPositions : p < k /\ log[p].chunk = c
                /\ RequestsOf(c) # {}
                /\ \A r \in RequestsOf(c) : r < k
                /\ Cardinality(RequestsOf(c)) = Cardinality({s \in SettledOf(c) : s < k})

\* the third chunk has been requested after the second chunk was retried
C7_Witness ==
    /\ pc = "await1"
    /\ i = 2
    /\ inflight = 1
    /\ Cardinality(RequestsOf(1)) = 2

-----------------------------------------------------------------------------
(* C8 *)

IsProgress(e) == e.ev = "progress"
ProgressCalls == SelectSeq(log, IsProgress)
CompletePositions == {k \in ProgressPositions : log[k].info = "complete"}

\* C8: the percents passed to the callback are integers in 0..100 and never
\* decrease; the completion report is made once, is 100, is the last call
\* and the last effect of a returned invocation, and comes after every chunk
\* has been processed.
C8_ProgressMonotone ==
    /\ \A k \in DOMAIN ProgressCalls : ProgressCalls[k].percent \in 0..100
    /\ \A k \in 1..(Len(ProgressCalls) - 1) :
         ProgressCalls[k].percent <= ProgressCalls[k + 1].percent
    /\ result = "returned" => (LastLogIs100 /\ Cardinality(CompletePositions) = 1)
    /\ result # "returned" => CompletePositions = {}
    /\ CompletePositions # {} => \A c \in ChunkIndexes : SettledOf(c) # {}

\* a returned document of three chunks, one of which failed: 0, 33, 67, 100
C8_Witness ==
    /\ result = "returned"
    /\ Len(chunks) = 3
    /\ Len(ProgressCalls) = 4
    /\ ProgressCalls[2].percent = 33
    /\ ProgressCalls[3].percent = 67
    /\ \E c \in ChunkIndexes : Cardinality(RejectedOf(c)) = 2

-----------------------------------------------------------------------------
(* C9 *)

\* C9: in every invocation that returns, the first progress call reports 0%
\* and is made before any request.
C9_FirstProgressIsZero ==
    result = "returned" =>
        /\ ProgressCalls # <<>>
        /\ ProgressCalls[1].percent = 0
        /\ \A r \in AllRequests : \E p \in ProgressPositions : p < r

-----------------------------------------------------------------------------
(* C10 *)

\* C10: after a rejected attempt of a chunk, and before the progress report
\* that follows for another chunk or for completion, a progress call
\* reporting the failure or the retry of that chunk is made.
C10_FailureNarrated ==
    \A k \in AllSettled :
        log[k].info = "rejected" =>
            \A m \in ProgressPositions :
                (m > k /\ log[m].chunk # log[k].chunk) =>
                    \E f \in ProgressPositions :
                        /\ k < f /\ f < m
                        /\ log[f].info \in {"failed", "retrying"}

-----------------------------------------------------------------------------
(* C11 *)

\* the texts the four repair stages hand to JSON.parse: the content without
\* fences; with quotes and keys fixed; with "]" appended; cut after the
\* last "}" and closed
StageTexts(content) ==
    LET fixedContent == FixQuotesAndKeys(StripFences(content))
    IN  <<StripFences(content),
          fixedContent,
          Append(fixedContent, "]"),
          Append(SubSeq(fixedContent, 1, LastBrace(fixedContent)), "]")>>

\* the stages that apply to the content and whose text parses: appending
\* "]" applies to an unterminated array, truncating to a text that has a "}"
ParsingStages(content) ==
    LET fixedContent == FixQuotesAndKeys(StripFences(content))
    IN  {k \in 1..4 :
            /\ k = 3 => Unterminated(fixedContent)
            /\ k = 4 => LastBrace(fixedContent) > 0
            /\ JsonParse(StageTexts(content)[k]).ok}

\* the first stage that parses, parses to an array
FirstParseIsArray(content) ==
    /\ ParsingStages(content) # {}
    /\ LET first == CHOOSE k \in ParsingStages(content) :
                       \A m \in ParsingStages(content) : k <= m
       IN  JsonParse(StageTexts(content)[first]).isArray

\* C11: a call of refineQuestionsWithAI resolves if and only if the response
\* has status 200 and a non-empty content, one of the four repair stages,
\* tried in order, parses the content, and the value parsed is an array; in
\* every other case the promise is rejected.
C11_RepairStagesDecide ==
    promise.settled =>
        (promise.ok <=> /\ response.kind = "content"
                        /\ response.content # <<>>
                        /\ FirstParseIsArray(response.content))

-----------------------------------------------------------------------------
(* C12 *)

LineClasses == {"noise", "answer", "option", "start", "continuation"}

\* a step of the loop, and the line it reads
ReadsLine == Len(linesRead') = Len(linesRead) + 1
LineRead == linesRead'[Len(linesRead')]

\* none of the recognizers of the loop matches the line
NoRecognizer(line) ==
    /\ ~chapterRegex(line)
    /\ ~isAnswerLine(line)
    /\ ~isOptionLine(line)
    /\ ~hasQuestionNumber(line)
    /\ ~hasJudgementMark(line)

\* every line read so far has one entry in the trace, of one of the five classes
EveryLineClassified ==
    /\ Len(trace) = Len(linesRead)
    /\ \A k \in DOMAIN trace :
           trace[k].line = linesRead[k] /\ trace[k].class \in LineClasses

\* the step appends the line, space-joined, to the title under construction
ContinuesTitle ==
    /\ trace'[Len(trace')].class = "continuation"
    /\ currentQuestion' =
           [currentQuestion EXCEPT !.title = @ \o <<" ">> \o LineRead]
    /\ questions' = questions

\* C12: every line of every sequence of trimmed non-empty lines is read
\* without raising and is assigned exactly one of the classes noise,
\* answer, option, new-question start, continuation; and a line matching no
\* recognizer while a question is under construction is a continuation of
\* its title.
C12_UnrecognizedContinues ==
    /\ []EveryLineClassified
    /\ [][(ReadsLine /\ NoRecognizer(LineRead) /\ currentQuestion # NoQuestion)
              => ContinuesTitle]_vars

\* C12, amended: ... a line matching no recognizer while a question is
\* under construction is a continuation of its title unless the line before
\* it (noise and continuation lines aside) was an answer line: then it
\* starts a new question.
C12_UnrecognizedContinuesUnlessAnswered ==
    /\ []EveryLineClassified
    /\ [][(ReadsLine /\ NoRecognizer(LineRead) /\ currentQuestion # NoQuestion)
              => IF lastLineType = "ANSWER"
                 THEN /\ trace'[Len(trace')].class = "start"
                      /\ questions' = Append(questions, Finalize(currentQuestion))
                 ELSE ContinuesTitle]_vars

\* a question line, a continuation of it, an answer line, and a plain line
\* that starts the next question
C12_Witness ==
    /\ Len(trace) = 3
    /\ trace[1].class = "start"
    /\ trace[2].class = "continuation" /\ NoRecognizer(trace[2].line)
    /\ trace[3].class = "answer"
    /\ ~returned

-----------------------------------------------------------------------------
(* C13 *)

RECURSIVE IsSubsequence(_, _)
\* a can be obtained from b by deleting characters
IsSubsequence(a, b) ==
    IF a = <<>> THEN TRUE
    ELSE IF b = <<>> THEN FALSE
    ELSE IF a[1] = b[1] THEN IsSubsequence(Tail(a), Tail(b))
    ELSE IsSubsequence(a, Tail(b))

RECURSIVE TitlesConcatenated(_)
\* the titles of the questions of list, one after the other
TitlesConcatenated(list) ==
    IF list = <<>> THEN <<>>
    ELSE list[1].title \o TitlesConcatenated(Tail(list))

RECURSIVE TextRead(_)
\* the lines of the entries that are not noise, in order, with the
\* separator of the title (one blank) between two lines
TextRead(entries) ==
    IF entries = <<>> THEN <<>>
    ELSE IF entries[1].class = "noise" THEN TextRead(Tail(entries))
    ELSE entries[1].line \o <<" ">> \o TextRead(Tail(entries))

\* C13: the titles of the emitted questions, concatenated in order, are a
\* subsequence (no reordering, no text from elsewhere) of the text of the
\* lines read that were not skipped as noise, the blanks that join lines
\* counted as separators between these lines.
C13_TitlesAreSubsequence ==
    IsSubsequence(TitlesConcatenated(questions), TextRead(trace))

\* "1.x" continued by "y(×)": number, mark and nothing else removed
C13_Witness ==
    /\ returned
    /\ Len(questions) = 1
    /\ Len(trace) = 2
    /\ trace[1].line = <<"1", ".", "x">>
    /\ trace[2].class = "continuation"
    /\ questions[1].title = <<"x", " ", "y">>

-----------------------------------------------------------------------------
(* C14 - C17 *)

UpperAF == {"A", "B", "C", "D", "E", "F"}

\* C14: every emitted question of type 判断题 has the answer '正确' or
\* '错误', or no answer.
C14_JudgmentAnswerCanonical ==
    \A k \in DOMAIN questions :
        questions[k].type = TypeJudgment =>
            questions[k].answer \in {AnswerTrue, AnswerFalse, NoAnswer}

\* C15: every emitted question of type 单选题 has an answer that is one
\* upper-case letter A-F, or no answer; every emitted question of type
\* 多选题 has an answer of two or more upper-case letters A-F, or no answer.
C15_ChoiceAnswerIsLetters ==
    \A k \in DOMAIN questions :
        LET q == questions[k]
        IN  /\ q.type = TypeSingle =>
                  \/ q.answer = NoAnswer
                  \/ Len(q.answer) = 1 /\ q.answer[1] \in UpperAF
            /\ q.type = TypeMulti =>
                  \/ q.answer = NoAnswer
                  \/ /\ Len(q.answer) >= 2
                     /\ \A j \in DOMAIN q.answer : q.answer[j] \in UpperAF

\* C16: every emitted question of type 判断题 or 简答题 has no options.
C16_NoOptionsOnJudgmentOrShort ==
    \A k \in DOMAIN questions :
        questions[k].type \in {TypeJudgment, TypeShort} => questions[k].options = <<>>

\* C17: in every emitted question each option label is one upper-case
\* letter A-F and no two options have the same label.
C17_OptionLabelsDistinct ==
    \A k \in DOMAIN questions :
        \A a, b \in DOMAIN questions[k].options :
            /\ questions[k].options[a].label \in UpperAF
            /\ a # b => questions[k].options[a].label # questions[k].options[b].label

-----------------------------------------------------------------------------
(* C18 *)

\* the question drafts[k] is typed 判断题, has no answer from an answer
\* line, and its title ends with a judgment mark
EndsWithMark(k) ==
    /\ inferQuestionType(drafts[k]).type = TypeJudgment
    /\ drafts[k].answer = NoAnswer
    /\ judgementMarkRegex(drafts[k].title).matched

\* C18: a finalized question of type 判断题 with no answer from an answer
\* line and a title that ends with a judgment mark is emitted with the
\* answer the symbol encodes ('正确' for √ ✓ T t Y y 对 是, '错误' for
\* × ✗ F f N n 错 否) and with the title it had, that trailing mark removed.
C18_TrailingMarkExtracted ==
    \A k \in DOMAIN questions :
        EndsWithMark(k) =>
            LET match == judgementMarkRegex(drafts[k].title)
            IN  /\ questions[k].answer =
                       IF match.symbol \in {"sqrt", "check", "T", "t", "Y", "y", "dui", "shi"}
                       THEN AnswerTrue ELSE AnswerFalse
                /\ questions[k].title =
                       TrimString(SubSeq(drafts[k].title, 1, match.index - 1))

-----------------------------------------------------------------------------
(* C19 *)

\* the pairs of an option line: one per marker, in marker order, the label
\* the marker's letter in upper case and the content the trimmed text from
\* the end of the marker to the start of the next marker or the end of line
PairsBetweenMarkers(line) ==
    LET markers == MatchAllMarkers(line, 1)
    IN  [k \in 1..Len(markers) |->
            [label |-> UpperOf(markers[k].label),
             content |->
                 TrimString(SubSeq(line, markers[k].index + markers[k].len,
                                   IF k < Len(markers) THEN markers[k + 1].index - 1
                                   ELSE Len(line)))]]

\* C19: an option line with k markers adds exactly k pairs, in marker
\* order, to the question under construction: the i-th label is the i-th
\* marker's letter in upper case, the i-th content the trimmed text between
\* the i-th marker and the next marker (or the end of the line).
C19_OnePairPerMarker ==
    [][(ReadsLine /\ trace'[Len(trace')].class = "option"
            /\ currentQuestion # NoQuestion)
          => currentQuestion'.options =
                 currentQuestion.options \o PairsBetweenMarkers(LineRead)]_vars

-----------------------------------------------------------------------------
(* C20 *)

\* C20: the typing step of the finalize routine is idempotent: applying
\* inferQuestionType and extractJudgementAnswer once more to an emitted
\* question changes neither its type, answer, title nor options.
C20_TypingIdempotent ==
    \A k \in DOMAIN questions :
        extractJudgementAnswer(inferQuestionType(questions[k])) = questions[k]

\* a question whose mark was extracted, and one whose type and answer were
\* inferred from the raw answer "ab"
C20_Witness ==
    /\ returned
    /\ Len(questions) = 2
    /\ drafts[1].answer = NoAnswer /\ questions[1].answer = AnswerFalse
    /\ drafts[2].type = TypeUnknown /\ drafts[2].answer = <<"a", "b">>
    /\ questions[2].type = TypeMulti /\ questions[2].answer = <<"A", "B">>

-----------------------------------------------------------------------------
(* C21 *)

\* the source lines of the document that was split
SourceLines == SplitLines(fullText)

\* the newline-join of lines a..b
JoinOf(ls, a, b) == JoinLines(SubSeq(ls, a, b))

\* the last line of the block that starts at line a: the line before the
\* next numbered line
BlockEnd(ls, a) ==
    LET later == {b \in (a + 1)..Len(ls) : NewQuestionRegexTest(ls[b])}
    IN  IF later = {} THEN Len(ls)
        ELSE (CHOOSE b \in later : \A c \in later : b <= c) - 1

\* the document is made of question-numbered blocks, each shorter than the
\* target size
MadeOfSmallBlocks(ls) ==
    /\ NewQuestionRegexTest(ls[1])
    /\ \A a \in DOMAIN ls :
         NewQuestionRegexTest(ls[a]) => StrLen(JoinOf(ls, a, BlockEnd(ls, a))) < TargetSize

\* C21: for a document made of question-numbered blocks each shorter than the
\* target size, every chunk starts with the first line of a block (a numbered
\* line): no chunk boundary falls inside a block.
C21_ChunksStartAtBlocks ==
    (pc = "splitDone" /\ MadeOfSmallBlocks(SourceLines)) =>
        \A k \in DOMAIN chunks : NewQuestionRegexTest(SplitLines(chunks[k])[1])

-----------------------------------------------------------------------------
(* C22 *)

\* C22: every chunk is at most 1.5 times the target size long, except a
\* chunk that is a single source line.
C22_ChunkSizeBounded ==
    pc = "splitDone" =>
        \A k \in DOMAIN chunks :
            \/ 2 * StrLen(chunks[k]) <= 3 * TargetSize
            \/ Len(SplitLines(chunks[k])) = 1

\* a document split into a chunk of several lines that is longer than the
\* target size and a chunk of one line that is longer than 1.5 times of it
C22_Witness ==
    /\ pc = "splitDone"
    /\ \E k \in DOMAIN chunks :
         /\ Len(SplitLines(chunks[k])) > 1
         /\ StrLen(chunks[k]) > TargetSize
    /\ \E k \in DOMAIN chunks :
         /\ Len(SplitLines(chunks[k])) = 1
         /\ 2 * StrLen(chunks[k]) > 3 * TargetSize

-----------------------------------------------------------------------------
(* C23 *)

RECURSIVE CoveredBy(_, _, _, _)
\* the chunks from the k-th on are newline-joins of runs of consecutive lines
\* taken in order from the lines after line `from`, and every line left out
\* is blank
CoveredBy(ls, from, cs, k) ==
    IF k > Len(cs)
    THEN \A n \in (from + 1)..Len(ls) : IsBlank(ls[n])
    ELSE \E a \in (from + 1)..Len(ls) :
            /\ \A n \in (from + 1)..(a - 1) : IsBlank(ls[n])
            /\ \E b \in a..Len(ls) :
                  /\ cs[k] = JoinOf(ls, a, b)
                  /\ CoveredBy(ls, b, cs, k + 1)

\* C23: every chunk is the newline-join of consecutive whole source lines,
\* the chunks follow the source order, every line that is in no chunk is
\* blank, and no chunk is blank.
C23_WholeLinesNothingLost ==
    pc = "splitDone" =>
        /\ CoveredBy(SourceLines, 0, chunks, 1)
        /\ \A k \in DOMAIN chunks : ~IsBlank(chunks[k])

\* a document of two chunks in which a blank buffer was discarded
C23_Witness ==
    /\ pc = "splitDone"
    /\ Len(chunks) = 2
    /\ \E n \in DOMAIN SourceLines :
         /\ SourceLines[n] # <<>>
         /\ IsBlank(SourceLines[n])
         /\ n < Len(SourceLines)
         /\ ~IsBlank(SourceLines[n + 1])
    /\ \A k \in DOMAIN chunks : TrimStart(chunks[k]) = chunks[k]

-----------------------------------------------------------------------------
(* C24 *)

\* C24: every refinement call eventually settles: with the response, with a
\* network error, or with the timeout.
C24_CallSettles == <>promise.settled

-----------------------------------------------------------------------------
(* C25 *)

\* the percents an invocation run alone has reported when it is at this
\* point: one report for each chunk begun, then 100
PercentsAlone ==
    LET n == Len(chunks)
        begun == IF pc \in {"await1", "retryDelay", "await2", "delay"} THEN i + 1
                 ELSE IF result = "returned" THEN n
                 ELSE 0
    IN  [k \in 1..begun |-> PercentOf(k - 1, n)]
        \o (IF result = "returned" THEN <<100>> ELSE <<>>)

\* C25: with the steps of two invocations interleaved, the invocation that
\* is followed (each of the two in turn) has the chunks of its own text, the
\* list made of the answers to its own requests, and the progress calls it
\* makes when run alone, and it has at most one request of its own in flight.
C25_InvocationsIndependent ==
    /\ (pc \notin {"init", "upload"} /\ result \in {"none", "returned"}) =>
           chunks = splitTextIntoChunks(fullText, TargetSize)
    /\ allFinalQuestions = ContributionsUpTo(Completed)
    /\ [k \in DOMAIN ProgressCalls |-> ProgressCalls[k].percent] = PercentsAlone
    /\ inflight = Cardinality(AllRequests) - Cardinality(AllSettled)

\* both invocations have a request in flight, each for its second chunk, the
\* one having kept the answer to its first request and the other a placeholder
C25_Witness ==
    /\ pc = "await2" /\ i = 1
    /\ peer.pc = "await1" /\ peer.i = 1
    /\ Len(allFinalQuestions) = 2
    /\ Len(peer.allFinalQuestions) = 1
    /\ peer.allFinalQuestions[1] = Placeholder(peer.chunks[1])

-----------------------------------------------------------------------------
(* C26 *)

\* every element of the list before the step is the same element after it
KeepsElements(before, after) ==
    /\ Len(after) >= Len(before)
    /\ \A k \in DOMAIN before : after[k] = before[k]

\* C26: a question that has been appended to the output list, by either
\* path, is changed by no later step, and neither is its place in the list.
C26_AppendedAreFrozen ==
    [][/\ KeepsElements(questions, questions')
       /\ KeepsElements(allFinalQuestions, allFinalQuestions')]_vars

\* two questions have been pushed, the first of them with its title and
\* answer normalized, and a third is under construction
C26_Witness ==
    /\ Len(questions) = 2
    /\ questions[1] # drafts[1]
    /\ currentQuestion # NoQuestion

-----------------------------------------------------------------------------
(* C27 *)

\* the class of the line by the priority of the recognizers: noise before
\* answer, answer before option, option before the decision between a new
\* question and a continuation
ClassByPriority(line) ==
    IF chapterRegex(line) THEN {"noise"}
    ELSE IF isAnswerLine(line) THEN {"answer"}
    ELSE IF isOptionLine(line) THEN {"option"}
    ELSE {"start", "continuation"}

\* what a step does with a line of the class: a noise line changes nothing,
\* an answer line at most the answer, an option line at most the options,
\* and neither of them the list
HandledAs(class) ==
    IF class = "noise"
    THEN UNCHANGED <<questions, currentQuestion, lastLineType, lastLineHadJudgementMark>>
    ELSE IF class = "answer"
    THEN /\ questions' = questions
         /\ currentQuestion' = [currentQuestion EXCEPT !.answer = currentQuestion'.answer]
         /\ lastLineType' = "ANSWER"
    ELSE IF class = "option"
    THEN /\ questions' = questions
         /\ currentQuestion' = [currentQuestion EXCEPT !.options = currentQuestion'.options]
         /\ lastLineType' = "OPTION"
    ELSE lastLineType' \in {"QUESTION", lastLineType}

\* C27: each line is classified by fixed priority, first match wins: noise,
\* then answer marker, then option marker, then the decision between a new
\* question and a continuation; and the line is handled by that class only.
C27_FirstMatchWins ==
    [][ReadsLine =>
          /\ trace'[Len(trace')].line = LineRead
          /\ trace'[Len(trace')].class \in ClassByPriority(LineRead)
          /\ HandledAs(trace'[Len(trace')].class)]_vars

\* an option line that ends with a judgment mark, read after a question line
\* that ends with one: it is handled as an option line and starts no question
C27_Witness ==
    /\ Len(trace) = 2
    /\ trace[1].class = "start" /\ hasJudgementMark(trace[1].line)
    /\ trace[2].class = "option" /\ hasJudgementMark(trace[2].line)
    /\ Len(currentQuestion.options) = 1
    /\ questions = <<>>

-----------------------------------------------------------------------------
(* C28 *)

\* the line is neither noise, nor an answer line, nor an option line
Unmarked(line) == ~chapterRegex(line) /\ ~isAnswerLine(line) /\ ~isOptionLine(line)

\* C28: a line that is neither noise, answer marker nor option marker starts
\* a new question if and only if it carries a question number, or the
\* previous state is ANSWER, or it carries a judgment mark and the
\* previous-line-judgment flag is set, or no question is under construction;
\* otherwise it is appended, space-joined, to the title under construction.
C28_StartOrContinue ==
    [][(ReadsLine /\ Unmarked(LineRead)) =>
          IF \/ hasQuestionNumber(LineRead)
             \/ lastLineType = "ANSWER"
             \/ (hasJudgementMark(LineRead) /\ lastLineHadJudgementMark)
             \/ currentQuestion = NoQuestion
          THEN /\ trace'[Len(trace')].class = "start"
               /\ questions' = IF currentQuestion = NoQuestion THEN questions
                               ELSE Append(questions, Finalize(currentQuestion))
               /\ currentQuestion'.id = Len(questions') + 1
               /\ currentQuestion'.options = <<>>
               /\ currentQuestion'.answer = NoAnswer
          ELSE /\ trace'[Len(trace')].class = "continuation"
               /\ questions' = questions
               /\ currentQuestion'.title = currentQuestion.title \o <<" ">> \o LineRead
               /\ currentQuestion'.id = currentQuestion.id
               /\ currentQuestion'.options = currentQuestion.options
               /\ currentQuestion'.answer = currentQuestion.answer]_vars

\* two lines that end with a judgment mark have started a question each, and
\* a plain line continues the second
C28_Witness ==
    /\ Len(trace) = 3
    /\ trace[1].class = "start"
    /\ trace[2].class = "start"
    /\ ~hasQuestionNumber(trace[2].line) /\ hasJudgementMark(trace[2].line)
    /\ trace[3].class = "continuation"
    /\ Len(questions) = 1

-----------------------------------------------------------------------------
(* C29 *)

\* C29: when the line processed last has started a question or continued
\* one, the previous-line-judgment flag is true exactly when that line ended
\* with a judgment mark.
C29_FlagTracksLastLine ==
    (trace # <<>> /\ trace[Len(trace)].class \in {"start", "continuation"}) =>
        lastLineHadJudgementMark = hasJudgementMark(trace[Len(trace)].line)

-----------------------------------------------------------------------------
(* C30 *)

\* the five rules, in order, for an answer and a list of options
FiveRules(ans, options) ==
    IF ToLowerCase(ans) \in TrueWords THEN [type |-> TypeJudgment, answer |-> AnswerTrue]
    ELSE IF ToLowerCase(ans) \in FalseWords
    THEN [type |-> TypeJudgment, answer |-> AnswerFalse]
    ELSE IF Len(ans) >= 2 /\ \A k \in DOMAIN ans : UpperOf(ans[k]) \in UpperAF
    THEN [type |-> TypeMulti, answer |-> [k \in DOMAIN ans |-> UpperOf(ans[k])]]
    ELSE IF Len(ans) = 1 /\ UpperOf(ans[1]) \in UpperAF
    THEN [type |-> TypeSingle, answer |-> <<UpperOf(ans[1])>>]
    ELSE IF Len(ans) > 10 \/ (Len(options) = 0 /\ Len(ans) > 0)
    THEN [type |-> TypeShort, answer |-> ans]
    ELSE IF Len(options) > 0 THEN [type |-> TypeSingle, answer |-> ans]
    ELSE [type |-> TypeShort, answer |-> ans]

\* C30: a question finalized with no type set gets the type and the answer
\* of the five rules applied in order, first match wins.
C30_FiveRulesInOrder ==
    \A k \in DOMAIN questions :
        drafts[k].type = TypeUnknown =>
            /\ questions[k].type = FiveRules(drafts[k].answer, drafts[k].options).type
            /\ questions[k].answer = FiveRules(drafts[k].answer, drafts[k].options).answer

\* a question with an option was returned whose answer F is in the judgment
\* vocabulary and is a letter A-F: the first rule won
C30_Witness ==
    /\ returned
    /\ \E k \in DOMAIN questions :
         /\ drafts[k].type = TypeUnknown
         /\ drafts[k].answer = <<"F">>
         /\ drafts[k].options # <<>>
         /\ questions[k].type = TypeJudgment
         /\ questions[k].answer = AnswerFalse

-----------------------------------------------------------------------------
(* C31 *)

\* the title a start line gives, its question number removed, begins with
\* one of the type labels (lines 175-186)
HasLabelPrefix(line) ==
    LET title == IF hasQuestionNumber(line)
                 THEN TrimString(From(line, questionNumberRegex(line) + 1))
                 ELSE line
    IN  \E labels \in {JudgementLabels, MultiLabels, SingleLabels, ShortLabels} :
            LabelMatch(title, labels) > 0

RECURSIVE StartLines(_)
\* the lines that started a question, in order: the k-th started question k
StartLines(entries) ==
    IF entries = <<>> THEN <<>>
    ELSE IF entries[1].class = "start"
    THEN <<entries[1].line>> \o StartLines(Tail(entries))
    ELSE StartLines(Tail(entries))

\* C31: an emitted question whose start line matched no type-label prefix
\* went through the rules of the inferencer, also when its type was preset
\* by a judgment mark: the raw answer it got from an answer line is emitted
\* normalized, with the type the rules give.
C31_OnlyLabelsExempt ==
    \A k \in DOMAIN questions :
        (~HasLabelPrefix(StartLines(trace)[k]) /\ drafts[k].answer # NoAnswer) =>
            /\ questions[k].answer = FiveRules(drafts[k].answer, drafts[k].options).answer
            /\ questions[k].type = FiveRules(drafts[k].answer, drafts[k].options).type

-----------------------------------------------------------------------------
(* C32 *)

\* C32: every question that was started is finalized and emitted exactly
\* once, in the order in which the questions were started, the one still in
\* progress at the end of the input too: the k-th emitted question is the
\* finalized k-th started one, and once the parser has returned the length
\* of the output is the number of lines classified as new-question starts.
C32_StartedEmittedOnce ==
    LET starts == StartLines(trace)
    IN  /\ Len(starts) = Len(questions) + (IF currentQuestion = NoQuestion THEN 0 ELSE 1)
        /\ returned => Len(questions) = Len(starts)
        /\ Len(drafts) = Len(questions)
        /\ \A k \in DOMAIN questions :
               /\ questions[k] = Finalize(drafts[k])
               /\ drafts[k].id = k
               /\ StartsWith(drafts[k].title, StartOf(starts[k]).title)

\* two questions were started, the second was still in progress, with an
\* answer, when the input ended, and both were returned
C32_Witness ==
    /\ returned
    /\ Len(trace) = 3
    /\ trace[3].class = "answer"
    /\ Len(questions) = 2
    /\ questions[2].answer # NoAnswer

-----------------------------------------------------------------------------
(* C33 *)

\* C33: an answer line or an option line affects only the question under
\* construction: an answer line overwrites its answer with the remainder the
\* line captures (the last answer line wins) and sets the state to ANSWER,
\* an option line appends the pairs extracted from it after the options the
\* question has and sets the state to OPTION; the emitted questions and the
\* title (and every other field) of the question under construction are
\* unchanged, and with no question under construction there is still none.
C33_MarkerLinesTouchOnlyCurrent ==
    [][(ReadsLine /\ trace'[Len(trace')].class \in {"answer", "option"}) =>
          /\ questions' = questions
          /\ IF currentQuestion = NoQuestion
             THEN currentQuestion' = NoQuestion
             ELSE IF trace'[Len(trace')].class = "answer"
             THEN currentQuestion' =
                      [currentQuestion EXCEPT
                          !.answer = TrimString(answerRegex(LineRead).capture)]
             ELSE currentQuestion' =
                      [currentQuestion EXCEPT
                          !.options = currentQuestion.options \o parseOptions(LineRead)]
          /\ lastLineType' = IF trace'[Len(trace')].class = "answer"
                             THEN "ANSWER" ELSE "OPTION"]_vars

\* a question has read two answer lines with different remainders, and its
\* answer is that of the second
C33_Witness ==
    /\ Len(trace) = 3
    /\ trace[1].class = "start"
    /\ trace[2].class = "answer"
    /\ trace[3].class = "answer"
    /\ answerRegex(trace[2].line).capture # answerRegex(trace[3].line).capture
    /\ currentQuestion.answer = answerRegex(trace[3].line).capture
    /\ currentQuestion.title = StartOf(trace[1].line).title

-----------------------------------------------------------------------------
(* C34 *)

\* the text of the line occurs in a field of the question
OccursIn(line, q) ==
    \/ IndexOf(q.title, line) > 0
    \/ IndexOf(q.answer, line) > 0
    \/ \E k \in DOMAIN q.options : IndexOf(q.options[k].content, line) > 0

\* C34: a section-heading-noise line changes nothing: the question under
\* construction, the tracked previous-line state, the previous-line-judgment
\* flag and the output list are the same after it, and its text is in no
\* emitted question.
C34_NoiseChangesNothing ==
    /\ [][(ReadsLine /\ chapterRegex(LineRead)) =>
             /\ trace'[Len(trace')].class = "noise"
             /\ UNCHANGED <<questions, currentQuestion, lastLineType,
                            lastLineHadJudgementMark>>]_vars
    /\ [](\A n \in DOMAIN trace : \A k \in DOMAIN questions :
              trace[n].class = "noise" => ~OccursIn(trace[n].line, questions[k]))

\* a noise line was read between two lines that end with a judgment mark:
\* the flag of the first was still set at the second, which started the
\* second of the two returned questions
C34_Witness ==
    /\ returned
    /\ Len(trace) = 3
    /\ trace[2].class = "noise"
    /\ ~hasQuestionNumber(trace[3].line)
    /\ Len(questions) = 2

-----------------------------------------------------------------------------
(* C35 *)

\* the direct parse, the quote/key repair and the array-closing repair give
\* no parse of the content (the last also when it does not apply), and the
\* content cut after its last "}" and closed parses to an array
OnlyTruncationParses(content) ==
    /\ ParsingStages(content) = {4}
    /\ JsonParse(StageTexts(content)[4]).isArray

\* C35: whenever the direct parse, the quote/key repair and the
\* array-closing repair have all failed to give a parse, also when the
\* array-closing repair did not apply, the truncation repair is tried before
\* the response is declared malformed: a content that only the truncation
\* repair parses, to an array, is not rejected.
C35_TruncationAlwaysTried ==
    (/\ promise.settled
     /\ response.kind = "content"
     /\ OnlyTruncationParses(response.content)) => promise.ok

-----------------------------------------------------------------------------
(* C36 *)

\* the title, blanks at its end aside, ends with a parenthesized judgment
\* symbol
EndsInJudgeMark(title) ==
    \E o \in JudgeOpen, s \in JudgeSymbols, c \in JudgeClose :
        EndsWith(TrimEnd(title), <<Run(o, 1), Run(s, 1), Run(c, 1)>>)

\* the title with the parenthesized symbol at its end, if it has one, cut
\* off, and trimmed
OneMarkTrimmed(title) ==
    IF EndsInJudgeMark(title)
    THEN Trim(Substring0(title, StrLen(TrimEnd(title)) - 3))
    ELSE Trim(title)

\* the step in which a request of chunk i resolves with an array of objects
BatchReceivedStep ==
    /\ pc \in {"await1", "await2"}
    /\ Len(log') > Len(log)
    /\ log'[Len(log) + 1].ev = "settled"
    /\ log'[Len(log) + 1].info = "resolved"
    /\ \A k \in DOMAIN log'[Len(log) + 1].value :
           log'[Len(log) + 1].value[k].kind = "object"

\* the questions of types other than 判断题 are appended as received
OthersAppendedAsReceived ==
    [][BatchReceivedStep =>
          LET refinedBatch == log'[Len(log) + 1].value
          IN  /\ Len(allFinalQuestions') = Len(allFinalQuestions) + Len(refinedBatch)
              /\ \A k \in DOMAIN refinedBatch :
                     refinedBatch[k].type # TypeJudgment =>
                         allFinalQuestions'[Len(allFinalQuestions) + k] = refinedBatch[k]]_vars

\* C36: before the batch of a chunk is appended to the output of
\* parseWithAI, every question in it marked Judgment has the trailing
\* parenthesized judgment symbol trimmed from its title, so no Judgment
\* question of the returned list has a title that ends with a judgment
\* mark; the titles of questions of other types are unchanged.
C36_NoJudgmentTitleEndsInMark ==
    /\ OthersAppendedAsReceived
    /\ [](result = "returned" =>
              \A k \in DOMAIN allFinalQuestions :
                  allFinalQuestions[k].type = TypeJudgment =>
                      ~EndsInJudgeMark(allFinalQuestions[k].title))

\* C36, amended: ... every question in it marked Judgment has one trailing
\* parenthesized judgment symbol, if its title ends with one, cut from its
\* title, which is then trimmed (a title that ended with two marks still
\* ends with one); questions of other types are appended as received.
C36_OneTrailingMarkTrimmed ==
    /\ OthersAppendedAsReceived
    /\ [][BatchReceivedStep =>
             LET refinedBatch == log'[Len(log) + 1].value
             IN  \A k \in DOMAIN refinedBatch :
                     refinedBatch[k].type = TypeJudgment =>
                         allFinalQuestions'[Len(allFinalQuestions) + k] =
                             [refinedBatch[k] EXCEPT !.title = OneMarkTrimmed(@)]]_vars

\* the returned list holds a Judgment question whose title "x(√)(×)" lost
\* its last mark and a single-choice question whose title "x(√)" kept its
\* mark
C36_Witness ==
    /\ result = "returned"
    /\ \E k \in DOMAIN allFinalQuestions :
           /\ allFinalQuestions[k].type = TypeJudgment
           /\ allFinalQuestions[k].title = JudgeTitle
    /\ \E k \in DOMAIN allFinalQuestions :
           /\ allFinalQuestions[k].type = TypeSingle
           /\ allFinalQuestions[k].title = JudgeTitle

-----------------------------------------------------------------------------
(* C37 *)

\* the timers awaited between the positions a and b of the log
TimersBetween(a, b) == {k \in (a + 1)..(b - 1) : log[k].ev = "timer"}

\* the position of the first refinement request of chunk c
FirstRequestOf(c) == CHOOSE k \in RequestsOf(c) : \A m \in RequestsOf(c) : k <= m

\* C37: the fixed inter-chunk delay is inserted after every chunk except the
\* last, whether the chunk succeeded or failed: between the end of the
\* processing of chunk c and the first refinement request of chunk c + 1
\* exactly one delay, of ChunkDelayMs, is awaited, and none between the last
\* chunk and the completion report of 100%.
C37_OneDelayBetweenChunks ==
    /\ \A c \in ChunkIndexes :
           (c > 0 /\ RequestsOf(c) # {}) =>
               LET timers == TimersBetween(LastSettledOf(c - 1), FirstRequestOf(c))
               IN  /\ Cardinality(timers) = 1
                   /\ \A k \in timers :
                          log[k] = Event("timer", c - 1, ChunkDelayMs, "chunkDelay")
    /\ (result = "returned" /\ chunks # <<>>) =>
           /\ LastLogIs100
           /\ TimersBetween(LastSettledOf(Len(chunks) - 1), Len(log)) = {}

\* a document of three chunks has returned: its first chunk succeeded, its
\* second failed twice, and two inter-chunk delays were awaited
C37_Witness ==
    /\ result = "returned"
    /\ Len(chunks) = 3
    /\ Cardinality(RejectedOf(0)) = 0
    /\ Cardinality(RejectedOf(1)) = 2
    /\ Cardinality({k \in DOMAIN log : log[k].info = "chunkDelay"}) = 2

-----------------------------------------------------------------------------
(* C38 *)

\* the array has an element on which the forEach throws
HasNull(refinedBatch) == \E k \in DOMAIN refinedBatch : refinedBatch[k].kind = "null"

\* the questions the step adds at the end of the list
AppendedByStep ==
    SubSeq(allFinalQuestions', Len(allFinalQuestions) + 1, Len(allFinalQuestions'))

\* a step in which a request of chunk i settles: what it appends, and
\* whether it issues a retry
SettlesAtomically ==
    LET e == log'[Len(log) + 1]
        thrown == e.info = "resolved" /\ HasNull(e.value)
    IN  /\ e.ev = "settled"
        /\ e.chunk = i
        /\ KeepsElements(allFinalQuestions, allFinalQuestions')
        /\ IF ChunkEndsStep
           THEN IF e.info = "resolved" /\ ~thrown
                THEN AppendedByStep = [k \in DOMAIN e.value |-> StripJudgeMark(e.value[k])]
                ELSE AppendedByStep = <<Placeholder(chunks[i + 1])>>
           ELSE AppendedByStep = <<>>
        /\ thrown => ChunkEndsStep
        /\ thrown => \A k \in (Len(log) + 1)..Len(log') :
                         (log'[k].ev = "request") => (log'[k].chunk # i)

\* C38: the contribution of a chunk to the output is atomic: the step that
\* ends the chunk appends either the whole batch received or exactly one
\* placeholder, never a part of a batch and never a batch and a placeholder;
\* a step that does not end the chunk appends nothing; and when the
\* post-processing of a received batch throws (a null element), the chunk
\* ends with the placeholder and no retry is issued.
C38_ContributionAtomic ==
    [][(pc \in {"await1", "await2"}) => SettlesAtomically]_vars

\* a returned document one chunk of which was answered at once with an array
\* that holds a question and a null: one request, and the placeholder alone
C38_Witness ==
    /\ result = "returned"
    /\ \E c \in ChunkIndexes :
           /\ Cardinality(RequestsOf(c)) = 1
           /\ log[LastSettledOf(c)].info = "resolved"
           /\ HasNull(log[LastSettledOf(c)].value)
           /\ Len(log[LastSettledOf(c)].value) = 2
           /\ ContributionOf(c) = <<Placeholder(chunks[c + 1])>>
    /\ Len(allFinalQuestions) = Len(chunks)

-----------------------------------------------------------------------------
(* C39 *)

\* '单选题', '多选题', '判断题', '简答题'
EmittedTypes == {TypeSingle, TypeMulti, TypeJudgment, TypeShort}

\* C39: every question emitted by parseWordToQuestions has one of the types
\* 单选题, 多选题, 判断题, 简答题: the initial type 未知 is never in the
\* output, whatever the lines.
C39_NoUnknownType ==
    \A k \in DOMAIN questions : questions[k].type \in EmittedTypes

\* two questions that started with the type 未知 and got no answer were
\* returned, one with an option and one without
C39_Witness ==
    /\ returned
    /\ Len(questions) = 2
    /\ \A k \in 1..2 : drafts[k].type = TypeUnknown /\ drafts[k].answer = NoAnswer
    /\ drafts[1].options # <<>> /\ questions[1].type = TypeSingle
    /\ drafts[2].options = <<>> /\ questions[2].type = TypeShort

-----------------------------------------------------------------------------
(* C40 *)

\* the requests answered with success
Succeeded == {r \in Raters : rateReq[r].status = 200}

\* C40: rating submissions for the same exam are never lost, whatever the
\* interleaving of their SELECT and UPDATE steps: the stored ratenums is
\* its initial value plus the number of submissions answered with success.
C40_NoRatingLost ==
    examRow.ratenums = UnratedRow.ratenums + Cardinality(Succeeded)
=============================================================================
